---- MODULE Spec2Model ----
(***************************************************************************)
(* A model of the tower-defense simulation core of catcat                  *)
(* (src/src/main.cpp, class Game and GameComponent).                       *)
(*                                                                         *)
(* Units.  The program computes with floats; the model uses exact integer  *)
(* fixed point:                                                            *)
(*   time (cooldown, sleep_timer, fire_rate, Dt)      milliseconds         *)
(*   tower range                                       tenths of a cell    *)
(*   tower centre                                      half cells          *)
(*   enemy speed                                       1e-4 cells / second *)
(*   enemy path_progress                               1e-7 cells          *)
(*   projectile x, y                                   1e-3 cells          *)
(* The board, the map catalogue and the length of a map are scaled down    *)
(* (BoardW x BoardH cells, NumMaps maps, WavesPerMap waves per map where   *)
(* the program has 48 x 28, 10 and 10); every other number is the          *)
(* program's.                                                              *)
(***************************************************************************)
EXTENDS Integers, Sequences, FiniteSets, TLC

\* ------------------------------------------------------------ bounds
BoardW == 8
BoardH == 3
NumMaps == 2
WavesPerMap == 2
MaxTowers == 2
MaxMoves == 1
MaxActions == 3
MaxTicks == 4

\* ------------------------------------------------- program constants
kTickMs == 16
kStartingKibbles == 90
kDevKibbles == 1000000
kFastForwardMultiplier == 5
kStartingLives == 9
kCatSleepBase == 500
kCatSleepUpgrade == 1000
kCatSleepCap == 5000
kGalacticVoidBackstepCells == 6
kKittyJumpBonusRange == 15
kCatatonicUpgradeRange == 8
kSpawnIntervalMs == 461
kProjectileSpeed == 17
\* one path cell in path_progress units (1e-7 cells)
ProgressUnit == 10 * 1000 * 1000

TowerTypes == {"Default", "Fat", "Kitty", "Thunder", "Catatonic", "Galactic"}
EnemyTypes == {"Mouse", "Rat", "BigRat", "Dog"}

None == [none |-> TRUE]

Pos(x, y) == [x |-> x, y |-> y]

Cells == {Pos(x, y) : x \in 0..(BoardW - 1), y \in 0..(BoardH - 1)}

Abs(n) == IF n < 0 THEN -n ELSE n
Sgn(n) == IF n > 0 THEN 1 ELSE IF n < 0 THEN -1 ELSE 0
Min(a, b) == IF a < b THEN a ELSE b
Max(a, b) == IF a > b THEN a ELSE b
Clamp(v, lo, hi) == IF v < lo THEN lo ELSE IF v > hi THEN hi ELSE v

\* std::uniform_real_distribution over [lo, hi): the two ends of the range.
Rand(lo, hi) == {lo, hi - 1}

\* ------------------------------------------------------ tower catalogue
GetDef(type) ==
  CASE type = "Default"   -> [type |-> type, cost |-> 35,   damage |-> 3, range |-> 45,   fire_rate |-> 850,  show_range |-> TRUE,  size |-> 1]
    [] type = "Fat"       -> [type |-> type, cost |-> 55,   damage |-> 4, range |-> 24,   fire_rate |-> 1400, show_range |-> TRUE,  size |-> 2]
    [] type = "Kitty"     -> [type |-> type, cost |-> 100,  damage |-> 3, range |-> 30,   fire_rate |-> 1000, show_range |-> TRUE,  size |-> 1]
    [] type = "Thunder"   -> [type |-> type, cost |-> 350,  damage |-> 6, range |-> 9990, fire_rate |-> 2600, show_range |-> FALSE, size |-> 1]
    [] type = "Catatonic" -> [type |-> type, cost |-> 500,  damage |-> 2, range |-> 32,   fire_rate |-> 2200, show_range |-> TRUE,  size |-> 1]
    [] type = "Galactic"  -> [type |-> type, cost |-> 1000, damage |-> 9, range |-> 75,   fire_rate |-> 2500, show_range |-> FALSE, size |-> 1]

\* --------------------------------------------------------- map catalogue
\* The catalogue of BuildMaps scaled to the model's board: a straight
\* corridor of width 1 and a bent corridor of width 2, alternating.
MapDef(i) ==
  IF i % 2 = 0
    THEN [anchors |-> <<Pos(0, BoardH \div 2), Pos(2, BoardH \div 2)>>, path_width |-> 1]
    ELSE [anchors |-> <<Pos(0, 0), Pos(1, 0), Pos(1, BoardH \div 2)>>, path_width |-> 2]

Segment(from, to) ==
  IF from.x = to.x
    THEN LET dir == IF to.y > from.y THEN 1 ELSE -1
         IN  [k \in 1..(Abs(to.y - from.y) + 1) |-> Pos(from.x, from.y + dir * (k - 1))]
    ELSE IF from.y = to.y
      THEN LET dir == IF to.x > from.x THEN 1 ELSE -1
           IN  [k \in 1..(Abs(to.x - from.x) + 1) |-> Pos(from.x + dir * (k - 1), from.y)]
      ELSE <<>>

RECURSIVE PathFrom(_, _)
PathFrom(anchors, i) ==
  IF i > Len(anchors) THEN <<>>
  ELSE Segment(anchors[i - 1], anchors[i]) \o PathFrom(anchors, i + 1)

\* The occupancy mask: the path dilated by path_width - 1.
PathMask(path, w) ==
  {c \in Cells : \E k \in 1..Len(path) :
     /\ Abs(c.x - path[k].x) <= w - 1
     /\ Abs(c.y - path[k].y) <= w - 1}

\* BuildPath: the centre path and the occupancy mask.
BuildPath(map) ==
  [path |-> PathFrom(map.anchors, 2),
   mask |-> PathMask(PathFrom(map.anchors, 2), map.path_width)]

Built == [i \in 0..(NumMaps - 1) |-> BuildPath(MapDef(i))]

CurrentMap(mi) == MapDef(mi)
PathOf(mi) == Built[mi].path
PathMaskOf(mi) == Built[mi].mask

\* --------------------------------------------------------------- geometry
\* Centre of a footprint in half cells.
TowerCenterAt(p, size) == [x |-> 2 * p.x + size - 1, y |-> 2 * p.y + size - 1]
TowerCenter(t) == TowerCenterAt(t.pos, t.size)

\* Four times the squared distance between a centre (half cells) and a cell.
DistanceSquared(a, b) ==
  (a.x - 2 * b.x) * (a.x - 2 * b.x) + (a.y - 2 * b.y) * (a.y - 2 * b.y)

\* d^2 <= range^2 with range in tenths: 4 d^2 * 25 <= range10^2.
InRange(center, c, range) == DistanceSquared(center, c) * 25 <= range * range

Footprint(p, size) ==
  {Pos(p.x + dx, p.y + dy) : dx \in 0..(size - 1), dy \in 0..(size - 1)}

\* ------------------------------------------------------------------ state
VARIABLES
  enemies_,            \* std::vector<Enemy>
  towers_,             \* std::vector<Tower>
  projectiles_,        \* std::vector<Projectile>
  held_tower_,         \* std::optional<HeldTower>
  cursor_,
  selected_type_,
  unlocked_,           \* the unlocked_* flags, as the set of unlocked types
  overlay_enabled_,
  auto_waves_,
  fast_forward_,
  dev_mode_,
  map_index_,
  kibbles_,
  lives_,
  wave_,
  wave_active_,
  game_over_,
  spawn_remaining_,
  spawn_cooldown_ms_,
  next_id,             \* history: serial number given to the next spawned unit
  obs,                 \* history: what the last Tick did
  last,                \* history: the last event handled (a key, or "tick")
  declined,            \* history: the last event's handler returned early
  moves,               \* number of cursor keys handled so far
  acts,                \* number of other keys handled so far
  ticks,               \* number of ticks so far
  toggled_odd,         \* history: 'f' was pressed an odd number of times
  handled,             \* history: what the last call of HandleEvent returned
  running_,            \* GameComponent: std::atomic<bool>
  ticker_pc,           \* GameComponent: where the ticker thread stands
  posted,              \* Event::Custom posted to the screen and not yet taken
  on_event             \* the event OnEvent is handling, "" between events

vars == <<enemies_, towers_, projectiles_, held_tower_, cursor_, selected_type_,
          unlocked_, overlay_enabled_, auto_waves_, fast_forward_, dev_mode_,
          map_index_, kibbles_, lives_, wave_, wave_active_, game_over_,
          spawn_remaining_, spawn_cooldown_ms_, next_id, obs, last, declined, moves, acts, ticks,
          toggled_odd, handled, running_, ticker_pc, posted, on_event>>

\* The members of Game.
gameVars == <<enemies_, towers_, projectiles_, held_tower_, cursor_, selected_type_,
              unlocked_, overlay_enabled_, auto_waves_, fast_forward_, dev_mode_,
              map_index_, kibbles_, lives_, wave_, wave_active_, game_over_,
              spawn_remaining_, spawn_cooldown_ms_>>
historyVars == <<next_id, obs, last, declined, moves, acts, ticks, toggled_odd, handled>>
threadVars == <<running_, ticker_pc, posted, on_event>>

NoObs ==
  [max_paid |-> 0, removed |-> 0, escaped |-> 0, escaped_paid |-> FALSE,
   completed |-> FALSE, check_active |-> FALSE, check_spawn |-> 0,
   check_enemies |-> 0, lives_zero |-> FALSE, jumpers |-> {},
   pre_pos |-> <<>>, planned |-> <<>>, landing |-> <<>>, static |-> {},
   kitty_map |-> 0, fired |-> {}, target |-> 0, idle |-> {}, swipes |-> {},
   naps |-> {}, volleys |-> {}, impacts |-> <<>>,
   check_state |-> [map_index |-> 0, towers |-> <<>>, held |-> None, lives |-> 0,
                    kibbles |-> 0, wave |-> 0, auto_waves |-> FALSE]]

\* Game::Game
Init ==
  /\ dev_mode_ \in BOOLEAN
  /\ enemies_ = <<>>
  /\ towers_ = <<>>
  /\ projectiles_ = <<>>
  /\ held_tower_ = None
  /\ cursor_ = Pos(3, BoardH \div 2)
  /\ selected_type_ = "Default"
  /\ unlocked_ = IF dev_mode_ THEN TowerTypes \ {"Default"} ELSE {}
  /\ overlay_enabled_ = TRUE
  /\ auto_waves_ = FALSE
  /\ fast_forward_ = FALSE
  /\ map_index_ = 0
  /\ kibbles_ = IF dev_mode_ THEN kDevKibbles ELSE kStartingKibbles
  /\ lives_ = kStartingLives
  /\ wave_ = 0
  /\ wave_active_ = FALSE
  /\ game_over_ = FALSE
  /\ spawn_remaining_ = 0
  /\ spawn_cooldown_ms_ = 0
  /\ next_id = 1
  /\ obs = NoObs
  /\ last = ""
  /\ declined = FALSE
  /\ moves = 0
  /\ acts = 0
  /\ ticks = 0
  /\ toggled_odd = FALSE
  /\ handled = FALSE
  /\ running_ = TRUE
  /\ ticker_pc = "test"
  /\ posted = 0
  /\ on_event = ""

\* ------------------------------------------------------------ placement
IsUnlocked(type) == type = "Default" \/ type \in unlocked_

OverlapsTower(towers, p, size) ==
  \E i \in 1..Len(towers) :
    LET t == towers[i]
        tx2 == t.pos.x + t.size - 1
        ty2 == t.pos.y + t.size - 1
        px2 == p.x + size - 1
        py2 == p.y + size - 1
    IN  ~(p.x > tx2 \/ px2 < t.pos.x \/ p.y > ty2 \/ py2 < t.pos.y)

OccupiesPath(mi, p, size) ==
  \E c \in Footprint(p, size) : c \notin Cells \/ c \in PathMaskOf(mi)

UpgradeBonus(upgraded) == IF upgraded THEN kCatatonicUpgradeRange ELSE 0

CatatonicConflict(towers, p, size, type, range, upgraded) ==
  /\ type = "Catatonic"
  /\ LET candidate_range == range + UpgradeBonus(upgraded)
         center == TowerCenterAt(p, size)
     IN  \E i \in 1..Len(towers) :
           /\ towers[i].type = "Catatonic"
           /\ LET other == TowerCenter(towers[i])
                  dist2 == (center.x - other.x) * (center.x - other.x)
                           + (center.y - other.y) * (center.y - other.y)
                  max_r == candidate_range + towers[i].range
                           + UpgradeBonus(towers[i].upgraded)
              IN  dist2 * 25 <= max_r * max_r

CanPlaceMutNoOverlap(towers, mi, p, size, type, range, upgraded) ==
  /\ ~(p.x < 0 \/ p.y < 0 \/ p.x + size - 1 >= BoardW \/ p.y + size - 1 >= BoardH)
  /\ ~OccupiesPath(mi, p, size)
  /\ ~CatatonicConflict(towers, p, size, type, range, upgraded)

CanPlace(towers, mi, p, size, type, range, upgraded) ==
  /\ ~(p.x < 0 \/ p.y < 0 \/ p.x + size - 1 >= BoardW \/ p.y + size - 1 >= BoardH)
  /\ ~OccupiesPath(mi, p, size)
  /\ ~OverlapsTower(towers, p, size)
  /\ ~CatatonicConflict(towers, p, size, type, range, upgraded)

\* Index of the first tower whose footprint holds p, 0 for std::nullopt.
TowerIndexAt(towers, p) ==
  LET hits == {i \in 1..Len(towers) :
                 /\ p.x >= towers[i].pos.x /\ p.x <= towers[i].pos.x + towers[i].size - 1
                 /\ p.y >= towers[i].pos.y /\ p.y <= towers[i].pos.y + towers[i].size - 1}
  IN  IF hits = {} THEN 0 ELSE CHOOSE i \in hits : \A j \in hits : i <= j

RemoveAt(seq, i) == [k \in 1..(Len(seq) - 1) |-> IF k < i THEN seq[k] ELSE seq[k + 1]]

NewTower(def, p, cd) ==
  [pos |-> p, damage |-> def.damage, range |-> def.range, cooldown |-> cd,
   fire_rate |-> def.fire_rate, type |-> def.type, size |-> def.size,
   upgraded |-> FALSE]

EditUnchanged == UNCHANGED <<towers_, kibbles_, held_tower_, overlay_enabled_>>

\* TryPlaceHeld putting the unit down as it was when bought.
TryPlaceHeldMutFresh ==
  IF held_tower_ = None THEN EditUnchanged
  ELSE LET t == held_tower_.tower
       IN  IF ~CanPlace(towers_, map_index_, cursor_, t.size, t.type, t.range, t.upgraded)
             THEN EditUnchanged
             ELSE \E cd \in Rand(50, t.fire_rate) :
                    /\ towers_' = Append(towers_, NewTower(GetDef(t.type), cursor_, cd))
                    /\ held_tower_' = None
                    /\ overlay_enabled_' = FALSE
                    /\ UNCHANGED kibbles_

TryPlaceHeld ==
  IF held_tower_ = None THEN EditUnchanged
  ELSE LET t == held_tower_.tower
       IN  IF ~CanPlace(towers_, map_index_, cursor_, t.size, t.type, t.range, t.upgraded)
             THEN EditUnchanged
             ELSE \E cd \in Rand(50, t.fire_rate) :
                    /\ towers_' = Append(towers_, [t EXCEPT !.pos = cursor_, !.cooldown = cd])
                    /\ held_tower_' = None
                    /\ overlay_enabled_' = FALSE
                    /\ UNCHANGED kibbles_

\* CancelHold restarting the unit's cooldown.
CancelHoldMutRestart ==
  IF held_tower_ = None THEN EditUnchanged
  ELSE /\ towers_' = Append(towers_, [held_tower_.tower EXCEPT !.pos = held_tower_.original,
                                                                !.cooldown = 0])
       /\ held_tower_' = None
       /\ overlay_enabled_' = FALSE
       /\ UNCHANGED kibbles_

CancelHold ==
  IF held_tower_ = None THEN EditUnchanged
  ELSE /\ towers_' = Append(towers_, [held_tower_.tower EXCEPT !.pos = held_tower_.original])
       /\ held_tower_' = None
       /\ overlay_enabled_' = FALSE
       /\ UNCHANGED kibbles_

\* PlaceTower buying a unit even while one is held.
PlaceTowerMutBuyWhileHeld ==
  IF ~overlay_enabled_ THEN EditUnchanged
  ELSE LET def == GetDef(selected_type_)
       IN  IF \/ ~IsUnlocked(def.type)
              \/ kibbles_ < def.cost
              \/ ~CanPlace(towers_, map_index_, cursor_, def.size, def.type, def.range, FALSE)
             THEN EditUnchanged
             ELSE \E cd \in Rand(50, def.fire_rate) :
                    /\ towers_' = Append(towers_, NewTower(def, cursor_, cd))
                    /\ kibbles_' = kibbles_ - def.cost
                    /\ UNCHANGED <<held_tower_, overlay_enabled_>>

PlaceTower ==
  IF ~overlay_enabled_ THEN EditUnchanged
  ELSE IF held_tower_ # None THEN TryPlaceHeld
  ELSE LET def == GetDef(selected_type_)
       IN  IF \/ ~IsUnlocked(def.type)
              \/ kibbles_ < def.cost
              \/ ~CanPlace(towers_, map_index_, cursor_, def.size, def.type, def.range, FALSE)
             THEN EditUnchanged
             ELSE \E cd \in Rand(50, def.fire_rate) :
                    /\ towers_' = Append(towers_, NewTower(def, cursor_, cd))
                    /\ kibbles_' = kibbles_ - def.cost
                    /\ UNCHANGED <<held_tower_, overlay_enabled_>>

\* PickUpTower holding a copy and leaving the unit where it stands.
PickUpTowerMutCopy ==
  LET idx == TowerIndexAt(towers_, cursor_)
  IN  IF held_tower_ # None \/ idx = 0 THEN EditUnchanged
      ELSE /\ held_tower_' = [tower |-> towers_[idx], original |-> towers_[idx].pos]
           /\ overlay_enabled_' = TRUE
           /\ UNCHANGED <<towers_, kibbles_>>

PickUpTower ==
  LET idx == TowerIndexAt(towers_, cursor_)
  IN  IF held_tower_ # None \/ idx = 0 THEN EditUnchanged
      ELSE /\ held_tower_' = [tower |-> towers_[idx], original |-> towers_[idx].pos]
           /\ towers_' = RemoveAt(towers_, idx)
           /\ overlay_enabled_' = TRUE
           /\ UNCHANGED kibbles_

\* static_cast<int>(std::round(cost * 0.6F))
Refund(cost) == (cost * 6 + 5) \div 10

\* SellTowerAtCursor refunding the price of the upgrade as well.
SellTowerAtCursorMutUpgradeRefund ==
  LET idx == TowerIndexAt(towers_, cursor_)
  IN  IF held_tower_ # None \/ idx = 0 THEN EditUnchanged
      ELSE /\ kibbles_' = kibbles_ + Refund(GetDef(towers_[idx].type).cost
                                              * (IF towers_[idx].upgraded THEN 6 ELSE 1))
           /\ towers_' = RemoveAt(towers_, idx)
           /\ UNCHANGED <<held_tower_, overlay_enabled_>>

SellTowerAtCursor ==
  LET idx == TowerIndexAt(towers_, cursor_)
  IN  IF held_tower_ # None \/ idx = 0 THEN EditUnchanged
      ELSE /\ kibbles_' = kibbles_ + Refund(GetDef(towers_[idx].type).cost)
           /\ towers_' = RemoveAt(towers_, idx)
           /\ UNCHANGED <<held_tower_, overlay_enabled_>>

\* UpgradeTowerAtCursor without its re-validation of "not yet upgraded".
UpgradeTowerAtCursorMutNoCheck ==
  LET idx == TowerIndexAt(towers_, cursor_)
  IN  IF held_tower_ # None \/ idx = 0 THEN EditUnchanged
      ELSE LET t == towers_[idx]
               cost == GetDef(t.type).cost * 5
           IN  IF kibbles_ < cost THEN EditUnchanged
               ELSE /\ kibbles_' = kibbles_ - cost
                    /\ towers_' = [towers_ EXCEPT ![idx].upgraded = TRUE]
                    /\ UNCHANGED <<held_tower_, overlay_enabled_>>

UpgradeTowerAtCursor ==
  LET idx == TowerIndexAt(towers_, cursor_)
  IN  IF held_tower_ # None \/ idx = 0 THEN EditUnchanged
      ELSE LET t == towers_[idx]
               cost == GetDef(t.type).cost * 5
               up == [t EXCEPT !.upgraded = TRUE]
           IN  IF t.upgraded \/ kibbles_ < cost THEN EditUnchanged
               ELSE /\ kibbles_' = kibbles_ - cost
                    /\ towers_' = [towers_ EXCEPT ![idx] =
                         IF t.type = "Fat" THEN [up EXCEPT !.range = t.range + 10]
                         ELSE IF t.type = "Thunder"
                           THEN [up EXCEPT !.fire_rate = 200, !.cooldown = 0]
                           ELSE up]
                    /\ UNCHANGED <<held_tower_, overlay_enabled_>>

\* TryUnlockOrSelect selecting the type even when the unlock is refused.
TryUnlockOrSelectMutSelectAnyway(type) ==
  IF IsUnlocked(type)
    THEN /\ selected_type_' = type
         /\ UNCHANGED <<kibbles_, unlocked_>>
    ELSE LET unlock_cost == GetDef(type).cost * 10
         IN  IF kibbles_ >= unlock_cost
               THEN /\ kibbles_' = kibbles_ - unlock_cost
                    /\ unlocked_' = unlocked_ \cup {type}
                    /\ selected_type_' = type
               ELSE /\ selected_type_' = type
                    /\ UNCHANGED <<kibbles_, unlocked_>>

\* TryUnlockOrSelect unlocking without looking at kibbles_.
TryUnlockOrSelectMutNoFunds(type) ==
  IF IsUnlocked(type)
    THEN /\ selected_type_' = type
         /\ UNCHANGED <<kibbles_, unlocked_>>
    ELSE /\ kibbles_' = kibbles_ - GetDef(type).cost * 10
         /\ unlocked_' = unlocked_ \cup {type}
         /\ selected_type_' = type

TryUnlockOrSelect(type) ==
  IF IsUnlocked(type)
    THEN /\ selected_type_' = type
         /\ UNCHANGED <<kibbles_, unlocked_>>
    ELSE LET unlock_cost == GetDef(type).cost * 10
         IN  IF kibbles_ >= unlock_cost
               THEN /\ kibbles_' = kibbles_ - unlock_cost
                    /\ unlocked_' = unlocked_ \cup {type}
                    /\ selected_type_' = type
               ELSE UNCHANGED <<kibbles_, unlocked_, selected_type_>>

\* ------------------------------------------------------------ simulation
\* The fields of Game that Tick reads and writes, as one record; the
\* steps of Tick map such a record to the set of records the step can
\* produce (one per outcome of the random draws).
Game ==
  [enemies |-> enemies_, towers |-> towers_, projectiles |-> projectiles_,
   held |-> held_tower_, kibbles |-> kibbles_, lives |-> lives_, wave |-> wave_,
   wave_active |-> wave_active_, game_over |-> game_over_,
   spawn_remaining |-> spawn_remaining_, spawn_cooldown_ms |-> spawn_cooldown_ms_,
   map_index |-> map_index_, auto_waves |-> auto_waves_,
   fast_forward |-> fast_forward_, next_id |-> next_id, obs |-> obs]

TimeScale(ff) == IF ff THEN kFastForwardMultiplier ELSE 1
Dt(g) == kTickMs * TimeScale(g.fast_forward)

\* C++ remainder (truncating).
CRem(a, b) == IF a >= 0 THEN a % b ELSE -((-a) % b)

DifficultyLevel(wave, mi) == CRem(wave - 1, WavesPerMap) + 1 + mi * 2

\* max(0.06, fire_rate / kSpeedFactor + Rand(-0.14, 0.14)), kSpeedFactor = 13/10
NextCooldown(base_rate) == {Max(60, (base_rate * 10) \div 13 + j) : j \in Rand(-140, 140)}

Bounty(type) ==
  CASE type = "Mouse" -> 8 [] type = "Rat" -> 12 [] type = "BigRat" -> 20 [] type = "Dog" -> 30

\* The types SelectEnemyType can return: every roll has positive probability.
SelectEnemyType(diff, mi) ==
  {"Mouse", "Rat"}
    \cup (IF diff >= 9 THEN {"BigRat"} ELSE {})
    \cup (IF mi >= 3 /\ diff >= 16 THEN {"Dog"} ELSE {})

\* max_hp and speed (1e-4 cells/s, kSpeedFactor applied) of a fresh unit.
ApplyEnemyStats(type, diff) ==
  CASE type = "Mouse"  -> [max_hp |-> 2 + diff,             speed |-> 12350 + 650 * diff]
    [] type = "Rat"    -> [max_hp |-> 5 + (diff * 5) \div 2, speed |-> 8450 + 845 * diff]
    [] type = "BigRat" -> [max_hp |-> 15 + diff * 4,        speed |-> 7150 + 585 * diff]
    [] type = "Dog"    -> [max_hp |-> 28 + diff * 6,        speed |-> 11700 + 715 * diff]

StartWaveMutNoGuard(g) ==
  [g EXCEPT !.wave = g.wave + 1,
            !.spawn_remaining = 6 + DifficultyLevel(g.wave + 1, g.map_index) * 2,
            !.spawn_cooldown_ms = 0,
            !.wave_active = TRUE]

\* StartWave sizing the wave as 6 + difficulty.
StartWaveMutSix(g) ==
  IF g.wave_active \/ g.game_over THEN g
  ELSE [g EXCEPT !.wave = g.wave + 1,
                 !.spawn_remaining = 6 + DifficultyLevel(g.wave + 1, g.map_index),
                 !.spawn_cooldown_ms = 0,
                 !.wave_active = TRUE]

StartWave(g) ==
  IF g.wave_active \/ g.game_over THEN g
  ELSE [g EXCEPT !.wave = g.wave + 1,
                 !.spawn_remaining = 6 + DifficultyLevel(g.wave + 1, g.map_index) * 2,
                 !.spawn_cooldown_ms = 0,
                 !.wave_active = TRUE]

\* SpawnTick stalled: the spawn cooldown never counts down and nothing is
\* spawned.
SpawnTickMutStall(g) == {g}

SpawnTick(g) ==
  IF ~g.wave_active THEN {g}
  ELSE IF g.spawn_remaining <= 0 /\ g.enemies = <<>> THEN {g}
  ELSE LET cd == g.spawn_cooldown_ms - kTickMs * TimeScale(g.fast_forward)
       IN  IF cd > 0 \/ g.spawn_remaining <= 0
             THEN {[g EXCEPT !.spawn_cooldown_ms = cd]}
             ELSE LET diff == DifficultyLevel(g.wave, g.map_index)
                      width == Max(1, CurrentMap(g.map_index).path_width)
                      lanes == IF width > 1 THEN (-(width - 1))..(width - 1) ELSE {0}
                  IN  {[g EXCEPT
                          !.enemies = Append(g.enemies,
                             [path_progress |-> 0, speed |-> ApplyEnemyStats(ty, diff).speed,
                              hp |-> ApplyEnemyStats(ty, diff).max_hp,
                              max_hp |-> ApplyEnemyStats(ty, diff).max_hp,
                              lane_offset |-> lane, type |-> ty, sleep_timer |-> 0,
                              id |-> g.next_id, paid |-> 0, knocked |-> FALSE,
                              escaped |-> FALSE]),
                          !.next_id = g.next_id + 1,
                          !.spawn_remaining = g.spawn_remaining - 1,
                          !.spawn_cooldown_ms = kSpawnIntervalMs]
                       : ty \in SelectEnemyType(diff, g.map_index), lane \in lanes}

\* Cell of a unit: floored path index plus the lane offset along the
\* perpendicular of the local direction, clamped to the board.
LaneCell(base, dx, dy, lane_offset) ==
  Pos(Clamp(base.x + (-dy) * lane_offset, 0, BoardW - 1),
      Clamp(base.y + dx * lane_offset, 0, BoardH - 1))

\* The cell at index i of the path (counted from 0), shifted by the lane.
PathCell(path, i, lane_offset) ==
  LaneCell(path[i + 1],
           Sgn(IF i + 1 < Len(path) THEN path[i + 2].x - path[i + 1].x
               ELSE IF i > 0 THEN path[i + 1].x - path[i].x ELSE 0),
           Sgn(IF i + 1 < Len(path) THEN path[i + 2].y - path[i + 1].y
               ELSE IF i > 0 THEN path[i + 1].y - path[i].y ELSE 0),
           lane_offset)

EnemyCellOn(path, e) ==
  PathCell(path, Clamp(e.path_progress \div ProgressUnit, 0, Len(path) - 1), e.lane_offset)

EnemyCell(mi, e) == EnemyCellOn(PathOf(mi), e)

RECURSIVE SeqSum(_)
SeqSum(s) == IF s = <<>> THEN 0 ELSE Head(s) + SeqSum(Tail(s))

Reached(g, e) == e.path_progress \div ProgressUnit >= Len(PathOf(g.map_index)) - 1

\* Escape without the life deduction.
EscapeMutNoLife(g, moved, ended) ==
  [g EXCEPT
     !.enemies = [k \in 1..Len(moved) |->
                    IF k \in ended THEN [moved[k] EXCEPT !.hp = 0, !.escaped = TRUE]
                    ELSE moved[k]]]

\* The second half of the loop of MoveEnemies: a unit whose floored
\* progress has reached the last path index escapes (hp = 0, one life
\* lost); `ended' holds the indices of those units.
Escape(g, moved, ended) ==
  [g EXCEPT
     !.enemies = [k \in 1..Len(moved) |->
                    IF k \in ended THEN [moved[k] EXCEPT !.hp = 0, !.escaped = TRUE]
                    ELSE moved[k]],
     !.lives = Max(0, g.lives - Cardinality(ended))]

Arrive(g, moved) == Escape(g, moved, {k \in 1..Len(moved) : Reached(g, moved[k])})

MoveEnemiesMutSleepWalk(g) ==
  Arrive(g, [k \in 1..Len(g.enemies) |->
               [g.enemies[k] EXCEPT
                  !.sleep_timer = Max(0, g.enemies[k].sleep_timer - Dt(g)),
                  !.path_progress = g.enemies[k].path_progress + (g.enemies[k].speed * Dt(g))]])

MoveEnemies(g) ==
  Arrive(g, [k \in 1..Len(g.enemies) |->
               IF g.enemies[k].sleep_timer > 0
                 THEN [g.enemies[k] EXCEPT
                         !.sleep_timer = Max(0, g.enemies[k].sleep_timer - Dt(g))]
                 ELSE [g.enemies[k] EXCEPT
                         !.path_progress = g.enemies[k].path_progress
                                             + (g.enemies[k].speed * Dt(g))]])

\* The loop of FindTargetAt from index i on; best is the index kept so far
\* (0 for std::nullopt) and best_progress its path_progress.
RECURSIVE FindTargetScan(_, _, _, _, _, _)
FindTargetScan(g, t, center, i, best, best_progress) ==
  IF i > Len(g.enemies) THEN best
  ELSE IF g.enemies[i].hp <= 0
    THEN FindTargetScan(g, t, center, i + 1, best, best_progress)
  ELSE IF /\ t.type # "Thunder"
          /\ DistanceSquared(center, EnemyCell(g.map_index, g.enemies[i])) * 25
               > t.range * t.range
    THEN FindTargetScan(g, t, center, i + 1, best, best_progress)
  ELSE IF g.enemies[i].path_progress > best_progress
    THEN FindTargetScan(g, t, center, i + 1, i, g.enemies[i].path_progress)
  ELSE FindTargetScan(g, t, center, i + 1, best, best_progress)

\* FindTargetAt without the test of hp.
FindTargetAtMutDead(g, t, center) ==
  FindTargetScan([g EXCEPT !.enemies = [k \in 1..Len(g.enemies) |->
                                          [g.enemies[k] EXCEPT !.hp = 1]]],
                 t, center, 1, 0, -ProgressUnit)

\* best_progress starts at -1.0F
FindTargetAt(g, t, center) == FindTargetScan(g, t, center, 1, 0, -ProgressUnit)

FindTarget(g, t) == FindTargetAt(g, t, TowerCenter(t))

\* ----------------------------------------------------------------- combat
\* The damage rule every attack repeats: hp -= damage; if hp <= 0 then
\* kibbles += Bounty and the death sound plays, else a hit splat.  `hits'
\* is the set of indices the attack's loop selects.  The history field
\* `paid' counts the bounty awards a unit has caused.
DamageAll(g, hits, damage) ==
  [g EXCEPT
     !.enemies = [k \in 1..Len(g.enemies) |->
                    LET e == g.enemies[k]
                    IN  IF k \in hits
                          THEN [e EXCEPT !.hp = e.hp - damage,
                                         !.paid = IF e.hp - damage <= 0 THEN e.paid + 1 ELSE e.paid]
                          ELSE e],
     !.kibbles = g.kibbles + SeqSum([k \in 1..Len(g.enemies) |->
                    IF k \in hits /\ g.enemies[k].hp - damage <= 0
                      THEN Bounty(g.enemies[k].type) ELSE 0])]

\* Vector from a centre (half cells) to a cell, in half cells.
VecTo(center, c) == [x |-> 2 * c.x - center.x, y |-> 2 * c.y - center.y]
Dot(a, b) == a.x * b.x + a.y * b.y
Cross(a, b) == a.x * b.y - a.y * b.x

\* dot >= -0.2 and |cross| <= 0.35 against the unit vector towards the target.
InBeam(v, d) ==
  /\ ~(Dot(v, d) < 0 /\ 25 * Dot(v, d) * Dot(v, d) > 4 * Dot(d, d))
  /\ 100 * Cross(v, d) * Cross(v, d) <= 49 * Dot(d, d)

FireLaserAlong(g, t, d) ==
  DamageAll(g, {k \in 1..Len(g.enemies) :
                  InBeam(VecTo(TowerCenter(t), EnemyCell(g.map_index, g.enemies[k])), d)},
            t.damage)

FireLaser(g, t, target) ==
  FireLaserAlong(g, t, VecTo(TowerCenter(t), EnemyCell(g.map_index, g.enemies[target])))

FireShockwave(g, t) ==
  DamageAll(g, {k \in 1..Len(g.enemies) :
                  InRange(TowerCenter(t), EnemyCell(g.map_index, g.enemies[k]), t.range)},
            t.damage)

\* std::round of a coordinate given in half cells.
RoundHalf(h) == (h + 1) \div 2

\* The footprint 6 steps deep and 4 offsets wide.
AreaAlongMutSixByFour(center, primary_x, primary_y, perp_x, perp_y) ==
  {Pos(RoundHalf(center.x) + primary_x * step + perp_x * off,
       RoundHalf(center.y) + primary_y * step + perp_y * off)
     : step \in 1..6, off \in (-2)..1} \cap Cells

\* The 3 x 2 block of KittyAttackArea: three steps along the primary
\* direction, the centre line and the line at offset -1 of the perpendicular.
AreaAlong(center, primary_x, primary_y, perp_x, perp_y) ==
  {Pos(RoundHalf(center.x) + primary_x * step + perp_x * off,
       RoundHalf(center.y) + primary_y * step + perp_y * off)
     : step \in 1..3, off \in (-1)..0} \cap Cells

AreaTowards(center, dx, dy) ==
  IF Abs(dx) >= Abs(dy)
    THEN AreaAlong(center, Sgn(dx), 0, 0, Sgn(dx))
    ELSE AreaAlong(center, 0, Sgn(dy), -Sgn(dy), 0)

KittyAttackArea(center, target_cell) ==
  AreaTowards(center, 2 * target_cell.x - center.x, 2 * target_cell.y - center.y)

KittyAreaHitsEnemy(g, cells) ==
  \E k \in 1..Len(g.enemies) :
    g.enemies[k].hp > 0 /\ EnemyCell(g.map_index, g.enemies[k]) \in cells

FireKitty(g, t, target) ==
  LET area == KittyAttackArea(TowerCenter(t), EnemyCell(g.map_index, g.enemies[target]))
  IN  DamageAll(g, {k \in 1..Len(g.enemies) : EnemyCell(g.map_index, g.enemies[k]) \in area},
                t.damage)

\* FireCatatonic setting the timer to the new duration whatever it was.
FireCatatonicMutOverwrite(g, t) ==
  LET radius == IF t.upgraded THEN t.range + kCatatonicUpgradeRange ELSE t.range
      sleep_dur == Clamp(IF t.upgraded THEN kCatSleepUpgrade ELSE kCatSleepBase, 0, kCatSleepCap)
  IN  [g EXCEPT !.enemies = [k \in 1..Len(g.enemies) |->
         LET e == g.enemies[k]
         IN  IF InRange(TowerCenter(t), EnemyCell(g.map_index, e), radius)
               THEN [e EXCEPT !.sleep_timer = sleep_dur]
               ELSE e]]

FireCatatonic(g, t) ==
  LET radius == IF t.upgraded THEN t.range + kCatatonicUpgradeRange ELSE t.range
      sleep_dur == Clamp(IF t.upgraded THEN kCatSleepUpgrade ELSE kCatSleepBase, 0, kCatSleepCap)
  IN  [g EXCEPT !.enemies = [k \in 1..Len(g.enemies) |->
         LET e == g.enemies[k]
         IN  IF InRange(TowerCenter(t), EnemyCell(g.map_index, e), radius)
               THEN [e EXCEPT !.sleep_timer = Min(kCatSleepCap, Max(e.sleep_timer, sleep_dur))]
               ELSE e]]

\* Cells within range and within the cone dot >= cos(0.6) of the direction
\* to the target; cos(0.6)^2 = 0.6812.
GalacticCells(center, d, range) ==
  {c \in Cells :
     LET v == VecTo(center, c)
     IN  /\ Dot(v, v) * 25 <= range * range
         /\ Dot(v, v) # 0
         /\ Dot(v, d) >= 0
         /\ 10000 * Dot(v, d) * Dot(v, d) >= 6812 * Dot(v, v) * Dot(d, d)}

\* void_proc is the outcome of the roll against kGalacticVoidChance.
\* The loop of FireGalactic over the units `hits' in the cone: the void
\* proc throws a unit back, then the damage rule applies.
GalacticHit(g, t, hits, void_proc) ==
  DamageAll([g EXCEPT !.enemies = [k \in 1..Len(g.enemies) |->
               IF k \in hits /\ void_proc
                 THEN [g.enemies[k] EXCEPT
                         !.path_progress =
                            Max(0, g.enemies[k].path_progress
                                     - kGalacticVoidBackstepCells * ProgressUnit),
                         !.knocked = TRUE]
                 ELSE g.enemies[k]]],
            hits, t.damage)

GalacticCone(g, t, cells, void_proc) ==
  GalacticHit(g, t, {k \in 1..Len(g.enemies) : EnemyCell(g.map_index, g.enemies[k]) \in cells},
              void_proc)

FireGalactic(g, t, target, void_proc) ==
  GalacticCone(g, t,
               GalacticCells(TowerCenter(t),
                             VecTo(TowerCenter(t), EnemyCell(g.map_index, g.enemies[target])),
                             t.range),
               void_proc)

\* A projectile leaves the tower's centre for the target's cell.
NewProjectile(g, t, target) ==
  [x |-> TowerCenter(t).x * 500, y |-> TowerCenter(t).y * 500,
   target |-> EnemyCell(g.map_index, g.enemies[target]), damage |-> t.damage]

\* The orders std::sort (by path_progress, descending) can leave the
\* indices R in: equal keys may come out in either order.
RECURSIVE SortedOrders(_, _)
SortedOrders(g, R) ==
  IF R = {} THEN {<<>>}
  ELSE UNION {{<<i>> \o s : s \in SortedOrders(g, R \ {i})}
                : i \in {i \in R : \A j \in R :
                           g.enemies[i].path_progress >= g.enemies[j].path_progress}}

\* The Default case of TowersAct: the projectiles one shot adds.
\* The shots of an upgraded Default: at the front, the middle and the back
\* of the sorted units in range, each once.
\* Volley without the tests that keep a unit from being shot at twice.
VolleyMutThree(shot, front, mid, back) ==
  <<shot[front], shot[mid], shot[back]>>

Volley(shot, front, mid, back) ==
  <<shot[front]>>
    \o (IF mid # front THEN <<shot[mid]>> ELSE <<>>)
    \o (IF back # front /\ back # mid THEN <<shot[back]>> ELSE <<>>)

\* The indices (into enemies_) add_projectile is called with, in order.
DefaultAims(g, t, target) ==
  IF ~t.upgraded THEN {<<target>>}
  ELSE {Volley([k \in 1..Len(g.enemies) |-> k],
               sorted[1], sorted[(Len(sorted) \div 2) + 1], sorted[Len(sorted)])
          : sorted \in SortedOrders(g,
              {k \in 1..Len(g.enemies) :
                 /\ g.enemies[k].hp > 0
                 /\ InRange(TowerCenter(t), EnemyCell(g.map_index, g.enemies[k]), t.range)})}

\* The projectiles pushed for the aims a.  The history field `volleys'
\* keeps, for every shot of a Default unit in the tick, the unit, the
\* hostile units it saw, the selected target, the aims and the projectiles.
DefaultShots(g, t, target, a) ==
  [g EXCEPT !.projectiles = g.projectiles \o [j \in 1..Len(a) |-> NewProjectile(g, t, a[j])],
            !.obs.volleys = g.obs.volleys \cup
              {[tower |-> t, map_index |-> g.map_index, enemies |-> g.enemies,
                target |-> target, aims |-> a,
                shots |-> [j \in 1..Len(a) |-> NewProjectile(g, t, a[j])]]}]

\* The history field `naps' keeps, for every call of FireCatatonic in the
\* tick, the unit that fired and the hostile units before and after it.
Napped(g, t, f) ==
  [f EXCEPT !.obs.naps = g.obs.naps \cup
     {[tower |-> t, map_index |-> g.map_index, before |-> g.enemies, after |-> f.enemies]}]

\* One iteration of the firing loop of TowersAct, for tower i.
\* The switch of TowersAct on the tower's type.
Fire(g, t, target) ==
  CASE t.type = "Default" ->
         {DefaultShots(g, t, target, a) : a \in DefaultAims(g, t, target)}
    [] t.type = "Thunder" -> {FireLaser(g, t, target)}
    [] t.type = "Fat" -> {FireShockwave(g, t)}
    [] t.type = "Catatonic" -> {Napped(g, t, FireCatatonic(g, t))}
    [] t.type = "Galactic" ->
         {FireGalactic(g, t, target, void_proc)
            : void_proc \in (IF t.upgraded THEN BOOLEAN ELSE {FALSE})}

\* The body of the loop of TowersAct starting a new cooldown although no
\* target was found.
TowerFireMutRestart(g, i, t, target) ==
  IF t.type = "Kitty" \/ t.cooldown > 0 THEN {g}
  ELSE IF target = 0
    THEN {[g EXCEPT !.towers[i].cooldown = cd, !.obs.idle = g.obs.idle \cup {i}]
            : cd \in NextCooldown(t.fire_rate)}
  ELSE {[f EXCEPT !.towers[i].cooldown = cd, !.obs.fired = f.obs.fired \cup {i}]
          : f \in Fire(g, t, target), cd \in NextCooldown(t.fire_rate)}

\* The body of the loop of TowersAct for towers_[i].  The history fields
\* `fired' and `idle' collect the units that fired and the ready units that
\* found no target.
TowerFire(g, i, t, target) ==
  IF t.type = "Kitty" \/ t.cooldown > 0 THEN {g}
  ELSE IF target = 0 THEN {[g EXCEPT !.obs.idle = g.obs.idle \cup {i}]}
  ELSE {[f EXCEPT !.towers[i].cooldown = cd, !.obs.fired = f.obs.fired \cup {i}]
          : f \in Fire(g, t, target), cd \in NextCooldown(t.fire_rate)}

TowerStep(g, i) == TowerFire(g, i, g.towers[i], FindTarget(g, g.towers[i]))

RECURSIVE TowersLoop(_, _, _)
TowersLoop(S, i, n) ==
  IF i > n THEN S ELSE TowersLoop(UNION {TowerStep(g, i) : g \in S}, i + 1, n)

\* ------------------------------------------------- upgraded Kitty jumps
TowerOccupancyMaskSkipping(towers, skip) ==
  UNION {Footprint(towers[i].pos, towers[i].size) \cap Cells
           : i \in (1..Len(towers)) \ skip}

KittyCellBlocked(mi, p, static_blocked, reserved, ignore_reserved) ==
  \/ p \notin Cells
  \/ OccupiesPath(mi, p, 1)
  \/ (p \in reserved /\ p # ignore_reserved)
  \/ p \in static_blocked

CanKittyOccupyCell(mi, towers, kitty_index, p) ==
  /\ p \in Cells
  /\ ~OccupiesPath(mi, p, 1)
  /\ \A i \in (1..Len(towers)) \ {kitty_index} : p \notin Footprint(towers[i].pos, towers[i].size)

\* The outcomes of ChooseKittyLanding: the landing (None for std::nullopt)
\* and the reserved mask afterwards.  std::shuffle can put any candidate
\* first; the first candidate that is not blocked wins.
\* The swipe from landing_center at the unit target_idx would hit.
LandingHits(g, landing_center, target_idx) ==
  /\ target_idx # 0
  /\ KittyAreaHitsEnemy(g, KittyAttackArea(landing_center,
                            EnemyCell(g.map_index, g.enemies[target_idx])))

PickLanding(g, t, static_blocked, reserved, candidates) ==
  IF candidates = {}
    THEN IF ~KittyCellBlocked(g.map_index, t.pos, static_blocked, reserved, t.pos)
           THEN {[landing |-> t.pos, reserved |-> reserved \cup {t.pos}]}
           ELSE {[landing |-> None, reserved |-> reserved]}
    ELSE {[landing |-> c, reserved |-> reserved \cup {c}] : c \in candidates}

LandingCandidates(g, t, static_blocked, reserved, jump_range) ==
  {c \in Cells :
     /\ ~KittyCellBlocked(g.map_index, c, static_blocked, reserved, t.pos)
     /\ DistanceSquared(TowerCenter(t), c) * 25 <= jump_range * jump_range
     /\ LandingHits(g, TowerCenterAt(c, t.size),
                    FindTargetAt(g, t, TowerCenterAt(c, t.size)))}

ChooseKittyLanding(g, tower_index, static_blocked, reserved) ==
  PickLanding(g, g.towers[tower_index], static_blocked, reserved,
              LandingCandidates(g, g.towers[tower_index], static_blocked, reserved,
                                g.towers[tower_index].range + kKittyJumpBonusRange))

\* The planned_landings maps the planning loop can build for the jump
\* order `order' (a sequence of tower indices), from `plan'.
RECURSIVE PlanLandings(_, _, _, _, _)
PlanLandings(g, order, static_blocked, reserved, plan) ==
  IF order = <<>> THEN {plan}
  ELSE UNION {PlanLandings(g, Tail(order), static_blocked, r.reserved,
                           IF r.landing = None THEN plan
                           ELSE [k \in DOMAIN plan \cup {Head(order)} |->
                                   IF k = Head(order) THEN r.landing ELSE plan[k]])
                : r \in ChooseKittyLanding(g, Head(order), static_blocked, reserved)}

JumpOrders(S) ==
  {p \in [1..Cardinality(S) -> S] : \A a, b \in 1..Cardinality(S) : a # b => p[a] # p[b]}

\* One iteration of the attack loop of HandleKittyAttacks, for tower idx.
\* The tower stands at its destination (`moved'): it swipes at its target,
\* or, with no target, is restored to its original cell.
\* The history field `swipes' keeps, for every swipe, the cell it was made
\* from and the cells and hp of the hostile units at that moment.
Seen(g) ==
  [k \in 1..Len(g.enemies) |->
     [cell |-> EnemyCell(g.map_index, g.enemies[k]), hp |-> g.enemies[k].hp]]

\* The swipe f of tower idx, standing as `moved', at `target', with its new
\* cooldown cd; the history keeps the target and the units after the swipe
\* as well.
Swiped(g, idx, moved, target, f, cd) ==
  [f EXCEPT
     !.towers[idx] = [moved EXCEPT !.cooldown = cd],
     !.obs.fired = g.obs.fired \cup {idx},
     !.obs.swipes = g.obs.swipes \cup
        {[idx |-> idx, pos |-> moved.pos, seen |-> Seen(g), tower |-> moved,
          target |-> target, after |-> Seen(f)]}]

\* The iteration leaving a unit without a target at its destination.
KittySwipeMutStay(g, idx, moved, target) ==
  IF target = 0 THEN {[g EXCEPT !.towers[idx] = moved, !.obs.idle = g.obs.idle \cup {idx}]}
  ELSE {Swiped(g, idx, moved, target, FireKitty(g, moved, target), cd)
          : cd \in NextCooldown(moved.fire_rate)}

KittySwipe(g, idx, moved, target) ==
  IF target = 0 THEN {[g EXCEPT !.obs.idle = g.obs.idle \cup {idx}]}
  ELSE {Swiped(g, idx, moved, target, FireKitty(g, moved, target), cd)
          : cd \in NextCooldown(moved.fire_rate)}

\* The destination is the planned landing unless another tower occupies it.
KittyJump(g, idx, t, wanted) ==
  IF t.upgraded /\ wanted # t.pos /\ ~CanKittyOccupyCell(g.map_index, g.towers, idx, wanted)
    THEN KittySwipe(g, idx, t, FindTarget(g, t))
    ELSE KittySwipe(g, idx, [t EXCEPT !.pos = wanted],
                    FindTarget(g, [t EXCEPT !.pos = wanted]))

KittyStep(g, idx, planned) ==
  KittyJump(g, idx, g.towers[idx],
            IF g.towers[idx].upgraded /\ idx \in DOMAIN planned
              THEN planned[idx] ELSE g.towers[idx].pos)

RECURSIVE KittyLoop(_, _, _, _, _)
KittyLoop(S, i, n, ready, planned) ==
  IF i > n THEN S
  ELSE KittyLoop(IF i \in ready THEN UNION {KittyStep(g, i, planned) : g \in S} ELSE S,
                 i + 1, n, ready, planned)

HandleKittyAttacks(g) ==
  LET ready == {i \in 1..Len(g.towers) :
                  g.towers[i].type = "Kitty" /\ g.towers[i].cooldown <= 0 /\ g.enemies # <<>>}
      jumping == {i \in ready : g.towers[i].upgraded}
      static_blocked == TowerOccupancyMaskSkipping(g.towers, jumping)
      reserved == {g.towers[i].pos : i \in jumping} \cap Cells
  IN  IF ready = {} THEN {g}
      ELSE UNION {UNION {
             {[h EXCEPT !.obs.jumpers = jumping,
                        !.obs.pre_pos = [i \in jumping |-> g.towers[i].pos],
                        !.obs.planned = planned,
                        !.obs.landing = [i \in jumping |-> h.towers[i].pos],
                        !.obs.static = static_blocked,
                        !.obs.kitty_map = g.map_index]
                : h \in KittyLoop({g}, 1, Len(g.towers), ready, planned)}
             : planned \in PlanLandings(g, order, static_blocked, reserved, <<>>)}
           : order \in JumpOrders(jumping)}

TowersAct(g) ==
  LET cooled == [g EXCEPT !.towers = [i \in 1..Len(g.towers) |->
                   [g.towers[i] EXCEPT !.cooldown = g.towers[i].cooldown - Dt(g)]]]
  IN  UNION {HandleKittyAttacks(h) : h \in TowersLoop({cooled}, 1, Len(g.towers))}

\* ------------------------------------------------------------ projectiles
\* Floor of the square root.
RECURSIVE Isqrt(_, _, _)
Isqrt(n, lo, hi) ==
  IF lo >= hi THEN lo
  ELSE LET mid == (lo + hi + 1) \div 2
       IN  IF mid * mid <= n THEN Isqrt(n, mid, hi) ELSE Isqrt(n, lo, mid - 1)

Sqrt(n) == Isqrt(n, 0, 40000)

MoveProjectiles(g) ==
  [g EXCEPT !.projectiles = [k \in 1..Len(g.projectiles) |->
     LET p == g.projectiles[k]
         dx == p.target.x * 1000 - p.x
         dy == p.target.y * 1000 - p.y
         dist == Sqrt(dx * dx + dy * dy)
         step == kProjectileSpeed * Dt(g)
     IN  IF dist <= step \/ dist < 1
           THEN [p EXCEPT !.x = p.target.x * 1000, !.y = p.target.y * 1000]
           ELSE [p EXCEPT !.x = p.x + (dx * step) \div dist,
                          !.y = p.y + (dy * step) \div dist]]]

Arrived(p) ==
  LET dx == p.target.x * 1000 - p.x
      dy == p.target.y * 1000 - p.y
  IN  dx * dx + dy * dy <= 50000

\* Index of the unit nearest to the impact point within distance 1 (first
\* on a tie), 0 when there is none.
ImpactD2(c, p) ==
  (c.x * 1000 - p.x) * (c.x * 1000 - p.x) + (c.y * 1000 - p.y) * (c.y * 1000 - p.y)

Nearest(d2, near) ==
  IF near = {} THEN 0
  ELSE CHOOSE k \in near : \A j \in near : d2[k] < d2[j] \/ (d2[k] = d2[j] /\ k <= j)

NearestWithin(d2) == Nearest(d2, {k \in DOMAIN d2 : d2[k] < 1000000})

HitIndex(g, p) ==
  NearestWithin([k \in 1..Len(g.enemies) |->
                   ImpactD2(EnemyCell(g.map_index, g.enemies[k]), p)])

\* A projectile that has arrived damages the unit it hits, if any.
Impact(g, p, hit_index) ==
  IF hit_index # 0 THEN DamageAll(g, {hit_index}, p.damage) ELSE g

\* The history field `impacts' keeps, for every projectile the loop of
\* ResolveProjectiles went through in the tick, in order, the projectile,
\* whether it was kept, and the hostile units before and after it.
Resolved(g, p, kept, f) ==
  [f EXCEPT !.obs.impacts = Append(g.obs.impacts,
     [p |-> p, kept |-> kept, map_index |-> g.map_index,
      before |-> g.enemies, after |-> f.enemies])]

\* The loop of ResolveProjectiles damaging on the way as well: a projectile
\* still in flight hits what it is passing and flies on.
RECURSIVE ResolveFromMutPiercing(_, _, _)
ResolveFromMutPiercing(g, k, survivors) ==
  IF k > Len(g.projectiles) THEN [g EXCEPT !.projectiles = survivors]
  ELSE IF ~Arrived(g.projectiles[k])
    THEN ResolveFromMutPiercing(
           Resolved(g, g.projectiles[k], TRUE,
                    Impact(g, g.projectiles[k], HitIndex(g, g.projectiles[k]))),
           k + 1, Append(survivors, g.projectiles[k]))
    ELSE ResolveFromMutPiercing(
           Resolved(g, g.projectiles[k], FALSE,
                    Impact(g, g.projectiles[k], HitIndex(g, g.projectiles[k]))),
           k + 1, survivors)

RECURSIVE ResolveFrom(_, _, _)
ResolveFrom(g, k, survivors) ==
  IF k > Len(g.projectiles) THEN [g EXCEPT !.projectiles = survivors]
  ELSE IF ~Arrived(g.projectiles[k])
    THEN ResolveFrom(Resolved(g, g.projectiles[k], TRUE, g),
                     k + 1, Append(survivors, g.projectiles[k]))
    ELSE ResolveFrom(Resolved(g, g.projectiles[k], FALSE,
                              Impact(g, g.projectiles[k], HitIndex(g, g.projectiles[k]))),
                     k + 1, survivors)

ResolveProjectiles(g) == ResolveFrom(g, 1, <<>>)

\* ------------------------------------------------------ cleanup and waves
CleanupMutKeepZero(g) ==
  LET Alive(e) == e.hp >= 0
  IN  [g EXCEPT !.enemies = SelectSeq(g.enemies, Alive)]

\* Cleanup, recording in obs what it removed.
Cleanup(g) ==
  LET Alive(e) == ~(e.hp <= 0)
      gone == {k \in 1..Len(g.enemies) : g.enemies[k].hp <= 0}
  IN  [g EXCEPT !.enemies = SelectSeq(g.enemies, Alive),
                !.obs.removed = Cardinality(gone),
                !.obs.escaped = Cardinality({k \in gone : g.enemies[k].escaped}),
                !.obs.max_paid = IF gone = {} THEN 0
                                 ELSE LET k == CHOOSE k \in gone : \A j \in gone :
                                                 g.enemies[k].paid >= g.enemies[j].paid
                                      IN  g.enemies[k].paid,
                !.obs.escaped_paid = \E k \in gone : g.enemies[k].escaped /\ g.enemies[k].paid > 0]

\* AdvanceMap without the reset of lives_.
AdvanceMapMutKeepLives(g, dev_skip) ==
  LET mi == (g.map_index + 1) % NumMaps
  IN  [g EXCEPT !.map_index = mi,
                !.wave_active = FALSE,
                !.spawn_remaining = 0,
                !.enemies = <<>>,
                !.towers = <<>>,
                !.held = None,
                !.auto_waves = FALSE,
                !.wave = IF dev_skip THEN mi * WavesPerMap ELSE g.wave]

\* AdvanceMap without enemies_.clear().
AdvanceMapMutKeepUnits(g, dev_skip) ==
  LET mi == (g.map_index + 1) % NumMaps
  IN  [g EXCEPT !.map_index = mi,
                !.wave_active = FALSE,
                !.spawn_remaining = 0,
                !.towers = <<>>,
                !.held = None,
                !.lives = kStartingLives,
                !.auto_waves = FALSE,
                !.wave = IF dev_skip THEN mi * WavesPerMap ELSE g.wave]

AdvanceMap(g, dev_skip) ==
  LET mi == (g.map_index + 1) % NumMaps
  IN  [g EXCEPT !.map_index = mi,
                !.wave_active = FALSE,
                !.spawn_remaining = 0,
                !.enemies = <<>>,
                !.towers = <<>>,
                !.held = None,
                !.lives = kStartingLives,
                !.auto_waves = FALSE,
                !.wave = IF dev_skip THEN mi * WavesPerMap ELSE g.wave]

CheckWaveCompletionMutIgnoreEnemies(g) ==
  IF ~g.wave_active THEN g
  ELSE IF g.spawn_remaining > 0 THEN g
  ELSE LET paid == [g EXCEPT !.wave_active = FALSE,
                             !.kibbles = g.kibbles + 20 + g.wave * 3,
                             !.obs.completed = TRUE]
           adv == IF g.wave % WavesPerMap = 0 THEN AdvanceMap(paid, FALSE) ELSE paid
       IN  IF adv.auto_waves /\ ~adv.game_over THEN StartWave(adv) ELSE adv

\* CheckWaveCompletion paying whenever the board is empty, wave or no wave.
CheckWaveCompletionMutNoActiveCheck(g) ==
  IF g.spawn_remaining > 0 \/ g.enemies # <<>> THEN g
  ELSE LET paid == [g EXCEPT !.wave_active = FALSE,
                             !.kibbles = g.kibbles + 20 + g.wave * 3,
                             !.obs.completed = g.wave_active]
           adv == IF g.wave_active /\ g.wave % WavesPerMap = 0
                    THEN AdvanceMap(paid, FALSE) ELSE paid
       IN  IF adv.auto_waves /\ ~adv.game_over THEN StartWave(adv) ELSE adv

\* CheckWaveCompletion without the automatic start of the next wave.
CheckWaveCompletionMutNoAuto(g) ==
  IF ~g.wave_active THEN g
  ELSE IF g.spawn_remaining > 0 \/ g.enemies # <<>> THEN g
  ELSE LET paid == [g EXCEPT !.wave_active = FALSE,
                             !.kibbles = g.kibbles + 20 + g.wave * 3,
                             !.obs.completed = TRUE]
       IN  IF g.wave % WavesPerMap = 0 THEN AdvanceMap(paid, FALSE) ELSE paid

CheckWaveCompletion(g) ==
  IF ~g.wave_active THEN g
  ELSE IF g.spawn_remaining > 0 \/ g.enemies # <<>> THEN g
  ELSE LET paid == [g EXCEPT !.wave_active = FALSE,
                             !.kibbles = g.kibbles + 20 + g.wave * 3,
                             !.obs.completed = TRUE]
           adv == IF g.wave % WavesPerMap = 0 THEN AdvanceMap(paid, FALSE) ELSE paid
       IN  IF adv.auto_waves /\ ~adv.game_over THEN StartWave(adv) ELSE adv

\* The history reset at the start of a Tick.
Observe(g) ==
  [g EXCEPT !.obs = NoObs,
            !.enemies = [k \in 1..Len(g.enemies) |-> [g.enemies[k] EXCEPT !.knocked = FALSE]]]

\* What CheckWaveCompletion is about to read.
ObserveCheck(g) ==
  [g EXCEPT !.obs.check_active = g.wave_active,
            !.obs.check_spawn = g.spawn_remaining,
            !.obs.check_enemies = Len(g.enemies),
            !.obs.lives_zero = g.lives <= 0,
            !.obs.check_state = [map_index |-> g.map_index, towers |-> g.towers,
                                 held |-> g.held, lives |-> g.lives,
                                 kibbles |-> g.kibbles, wave |-> g.wave,
                                 auto_waves |-> g.auto_waves]]

GameOverCheck(g) ==
  IF g.lives <= 0 /\ ~g.game_over
    THEN [g EXCEPT !.game_over = TRUE, !.auto_waves = FALSE]
    ELSE g

\* The body of Game::Tick after its early return.
RunTick(g) ==
  {GameOverCheck(CheckWaveCompletion(ObserveCheck(Cleanup(
     ResolveProjectiles(MoveProjectiles(a))))))
     : a \in UNION {TowersAct(MoveEnemies(s)) : s \in SpawnTick(Observe(g))}}

\* Game::Tick without its early return on game over.
TickOutcomesMutNoReturn(g) == RunTick(g)

\* The outcomes of Game::Tick on g.
TickOutcomes(g) == IF g.game_over THEN {g} ELSE RunTick(g)

Tick ==
  /\ ticks' = ticks + 1
  /\ last' = "tick"
  /\ UNCHANGED handled
  /\ declined' = game_over_
  /\ \E h \in TickOutcomes(Game) :
       /\ enemies_' = h.enemies
       /\ towers_' = h.towers
       /\ projectiles_' = h.projectiles
       /\ held_tower_' = h.held
       /\ kibbles_' = h.kibbles
       /\ lives_' = h.lives
       /\ wave_' = h.wave
       /\ wave_active_' = h.wave_active
       /\ game_over_' = h.game_over
       /\ spawn_remaining_' = h.spawn_remaining
       /\ spawn_cooldown_ms_' = h.spawn_cooldown_ms
       /\ map_index_' = h.map_index
       /\ auto_waves_' = h.auto_waves
       /\ next_id' = h.next_id
       /\ obs' = h.obs
  /\ UNCHANGED <<cursor_, selected_type_, unlocked_, overlay_enabled_,
                 fast_forward_, toggled_odd, dev_mode_, moves, acts>>

\* ----------------------------------------------------------- player events
\* Game::HandleEvent, one action per key.  The keys h, p, t and y change
\* only the display and the audio and are left out, as are view_shop_ and
\* show_controls_.
simVars == <<enemies_, projectiles_, lives_, game_over_, next_id, obs, ticks>>
waveVars == <<wave_, wave_active_, spawn_remaining_, spawn_cooldown_ms_>>
shopVars == <<selected_type_, unlocked_>>

\* arrows / WASD
KeyMove(dx, dy) ==
  /\ last' = "move"
  /\ handled' = ~game_over_
  /\ cursor_' = IF game_over_ THEN cursor_
                ELSE Pos(Clamp(cursor_.x + dx, 0, BoardW - 1), Clamp(cursor_.y + dy, 0, BoardH - 1))
  /\ declined' = game_over_
  /\ UNCHANGED <<towers_, kibbles_, held_tower_, overlay_enabled_, simVars, waveVars,
                 shopVars, auto_waves_, fast_forward_, toggled_odd, dev_mode_, map_index_>>

\* 'c' / space
KeyPlace ==
  /\ last' = "c"
  /\ handled' = ~game_over_
  /\ IF game_over_ THEN EditUnchanged ELSE PlaceTower
  /\ declined' = (towers_' = towers_ /\ held_tower_' = held_tower_)
  /\ UNCHANGED <<cursor_, simVars, waveVars, shopVars, auto_waves_, fast_forward_, toggled_odd,
                 dev_mode_, map_index_>>

SetWave(h) ==
  /\ wave_' = h.wave
  /\ wave_active_' = h.wave_active
  /\ spawn_remaining_' = h.spawn_remaining
  /\ spawn_cooldown_ms_' = h.spawn_cooldown_ms

\* 'n'
KeyStartWave ==
  /\ last' = "n"
  /\ handled' = ~game_over_
  /\ IF game_over_ THEN UNCHANGED <<auto_waves_, waveVars>>
     ELSE /\ auto_waves_' = FALSE
          /\ SetWave(StartWave(Game))
  /\ declined' = (game_over_ \/ wave_active_)
  /\ UNCHANGED <<cursor_, towers_, kibbles_, held_tower_, overlay_enabled_, simVars,
                 shopVars, fast_forward_, toggled_odd, dev_mode_, map_index_>>

\* 'N'
KeyAutoWave ==
  /\ last' = "N"
  /\ handled' = ~game_over_
  /\ IF game_over_ THEN UNCHANGED <<auto_waves_, waveVars>>
     ELSE /\ auto_waves_' = TRUE
          /\ IF ~wave_active_ THEN SetWave(StartWave(Game)) ELSE UNCHANGED waveVars
  /\ declined' = game_over_
  /\ UNCHANGED <<cursor_, towers_, kibbles_, held_tower_, overlay_enabled_, simVars,
                 shopVars, fast_forward_, toggled_odd, dev_mode_, map_index_>>

\* 'f' switching fast-forward on instead of toggling it.
KeyFastForwardMutSet ==
  /\ last' = "f"
  /\ handled' = ~game_over_
  /\ toggled_odd' = ~toggled_odd
  /\ fast_forward_' = IF game_over_ THEN fast_forward_ ELSE TRUE
  /\ declined' = game_over_
  /\ UNCHANGED <<cursor_, towers_, kibbles_, held_tower_, overlay_enabled_, simVars,
                 waveVars, shopVars, auto_waves_, dev_mode_, map_index_>>

\* 'f'
KeyFastForward ==
  /\ last' = "f"
  /\ handled' = ~game_over_
  /\ toggled_odd' = ~toggled_odd
  /\ fast_forward_' = IF game_over_ THEN fast_forward_ ELSE ~fast_forward_
  /\ declined' = game_over_
  /\ UNCHANGED <<cursor_, towers_, kibbles_, held_tower_, overlay_enabled_, simVars,
                 waveVars, shopVars, auto_waves_, dev_mode_, map_index_>>

\* '1' .. '6'
KeySelect(type) ==
  /\ last' = type
  /\ handled' = ~game_over_
  /\ IF game_over_ THEN UNCHANGED <<kibbles_, shopVars, overlay_enabled_>>
     ELSE /\ IF type = "Default"
               THEN selected_type_' = type /\ UNCHANGED <<kibbles_, unlocked_>>
               ELSE TryUnlockOrSelect(type)
          /\ overlay_enabled_' = TRUE
  /\ declined' = (game_over_ \/ (~IsUnlocked(type) /\ kibbles_ < GetDef(type).cost * 10))
  /\ UNCHANGED <<cursor_, towers_, held_tower_, simVars, waveVars, auto_waves_,
                 fast_forward_, toggled_odd, dev_mode_, map_index_>>

\* Escape
KeyEscape ==
  /\ last' = "Escape"
  /\ handled' = ~game_over_
  /\ IF game_over_ THEN EditUnchanged
     ELSE IF held_tower_ # None THEN CancelHold
     ELSE overlay_enabled_' = FALSE /\ UNCHANGED <<towers_, kibbles_, held_tower_>>
  /\ declined' = (towers_' = towers_ /\ held_tower_' = held_tower_)
  /\ UNCHANGED <<cursor_, simVars, waveVars, shopVars, auto_waves_, fast_forward_, toggled_odd,
                 dev_mode_, map_index_>>

\* 'm'
KeyPickUp ==
  /\ last' = "m"
  /\ handled' = ~game_over_
  /\ IF game_over_ THEN EditUnchanged
     ELSE IF held_tower_ # None THEN TryPlaceHeld ELSE PickUpTower
  /\ declined' = (towers_' = towers_ /\ held_tower_' = held_tower_)
  /\ UNCHANGED <<cursor_, simVars, waveVars, shopVars, auto_waves_, fast_forward_, toggled_odd,
                 dev_mode_, map_index_>>

\* 'u'
KeyUpgrade ==
  /\ last' = "u"
  /\ handled' = ~game_over_
  /\ IF game_over_ THEN EditUnchanged ELSE UpgradeTowerAtCursor
  /\ declined' = (towers_' = towers_ /\ held_tower_' = held_tower_)
  /\ UNCHANGED <<cursor_, simVars, waveVars, shopVars, auto_waves_, fast_forward_, toggled_odd,
                 dev_mode_, map_index_>>

\* 'x' reporting a sale that was declined as not handled.
KeySellMutReportDeclined ==
  /\ last' = "x"
  /\ IF game_over_ THEN EditUnchanged ELSE SellTowerAtCursor
  /\ declined' = (towers_' = towers_ /\ held_tower_' = held_tower_)
  /\ handled' = (~game_over_ /\ ~declined')
  /\ UNCHANGED <<cursor_, simVars, waveVars, shopVars, auto_waves_, fast_forward_, toggled_odd,
                 dev_mode_, map_index_>>

\* 'x'
KeySell ==
  /\ last' = "x"
  /\ handled' = ~game_over_
  /\ IF game_over_ THEN EditUnchanged ELSE SellTowerAtCursor
  /\ declined' = (towers_' = towers_ /\ held_tower_' = held_tower_)
  /\ UNCHANGED <<cursor_, simVars, waveVars, shopVars, auto_waves_, fast_forward_, toggled_odd,
                 dev_mode_, map_index_>>

\* '>' (dev mode only)
KeyDevSkip ==
  /\ last' = ">"
  /\ handled' = (~game_over_ /\ dev_mode_)
  /\ IF game_over_ \/ ~dev_mode_
       THEN UNCHANGED <<map_index_, waveVars, enemies_, towers_, held_tower_, lives_, auto_waves_>>
       ELSE LET h == AdvanceMap(Game, TRUE)
            IN  /\ map_index_' = h.map_index
                /\ SetWave(h)
                /\ enemies_' = h.enemies
                /\ towers_' = h.towers
                /\ held_tower_' = h.held
                /\ lives_' = h.lives
                /\ auto_waves_' = h.auto_waves
  /\ declined' = (game_over_ \/ ~dev_mode_)
  /\ UNCHANGED <<cursor_, kibbles_, overlay_enabled_, projectiles_, game_over_, next_id,
                 obs, ticks, shopVars, fast_forward_, toggled_odd, dev_mode_>>

\* ------------------------------------------------------------- rendering
\* Game::RenderBoard, the placement preview under the cursor.
show_overlay == overlay_enabled_ \/ held_tower_ # None

preview_def_place ==
  GetDef(IF held_tower_ # None THEN held_tower_.tower.type ELSE selected_type_)

\* TRUE: the footprint is drawn with '+', FALSE: with 'X'.
can_place_preview ==
  /\ cursor_.x >= 0 /\ cursor_.y >= 0
  /\ cursor_.x + preview_def_place.size - 1 < BoardW
  /\ cursor_.y + preview_def_place.size - 1 < BoardH
  /\ ~OccupiesPath(map_index_, cursor_, preview_def_place.size)
  /\ ~OverlapsTower(towers_, cursor_, preview_def_place.size)

Steps == {<<0, -1>>, <<0, 1>>, <<-1, 0>>, <<1, 0>>}

\* The footprint a purchase or a re-placement would add stays within MaxTowers.
Room == Len(towers_) + (IF held_tower_ = None THEN 0 ELSE 1) < MaxTowers

Event ==
  \/ (Room \/ held_tower_ # None) /\ KeyPlace
  \/ KeyStartWave
  \/ KeyAutoWave
  \/ KeyFastForward
  \/ \E type \in TowerTypes : KeySelect(type)
  \/ KeyEscape
  \/ KeyPickUp
  \/ KeyUpgrade
  \/ KeySell
  \/ KeyDevSkip

\* GameComponent::OnEvent: a posted tick or a key, one at a time.
Next ==
  \/ ticks < MaxTicks /\ Tick /\ UNCHANGED threadVars
  \/ /\ moves < MaxMoves /\ moves' = moves + 1 /\ UNCHANGED acts
     /\ \E d \in Steps : KeyMove(d[1], d[2])
     /\ UNCHANGED threadVars
  \/ acts < MaxActions /\ acts' = acts + 1 /\ UNCHANGED moves /\ Event /\ UNCHANGED threadVars

Spec == Init /\ [][Next]_vars

\* ------------------------------------------------------------ scenarios
\* The specifications below restrict the player, not the program: each
\* lets the player press only some keys, and only at some moments, so
\* that long games fit in the search.  Every behaviour of a scenario is a
\* behaviour of Spec with larger budgets.

\* A fight: the player builds before the wave, then watches it.
FightActions == 6
FightMoves == 1
FightTicks == 4

NextFight ==
  \/ wave_active_ /\ ticks < FightTicks /\ Tick /\ UNCHANGED threadVars
  \/ /\ ~wave_active_ /\ moves < FightMoves /\ moves' = moves + 1 /\ UNCHANGED acts
     /\ \E d \in Steps : KeyMove(d[1], d[2])
     /\ UNCHANGED threadVars
  \/ /\ ~wave_active_ /\ acts < FightActions /\ acts' = acts + 1 /\ UNCHANGED moves
     /\ \/ Room /\ KeyPlace
        \/ \E type \in {"Catatonic", "Galactic"} : KeySelect(type)
        \/ KeyUpgrade
        \/ KeyDevSkip
        \/ KeyFastForward
        \/ KeyStartWave
     /\ UNCHANGED threadVars

SpecFight == Init /\ [][NextFight]_vars

\* A siege of the first map: the player may fast-forward, starts the waves
\* by hand or lets them start themselves, may build one Thunder between
\* waves and upgrade it before the next wave, may take it off the board
\* near the end of a wave, and in dev mode may skip the map while units are
\* still to come.  Time runs while a wave is active and for one tick after
\* a wave has completed.
SiegeActions == 7
SiegeTicks == 170

NextSiege ==
  \/ /\ wave_active_ \/ (last = "tick" /\ obs.completed)
     /\ ticks < SiegeTicks /\ Tick /\ UNCHANGED threadVars
  \/ /\ acts < SiegeActions /\ acts' = acts + 1 /\ UNCHANGED moves
     /\ \/ wave_ = 0 /\ ~fast_forward_ /\ KeyFastForward
        \/ /\ ~wave_active_ /\ map_index_ = 0
           /\ \A i \in 1..Len(towers_) : towers_[i].upgraded
           /\ KeyStartWave
        \/ ~wave_active_ /\ map_index_ = 0 /\ KeyAutoWave
        \/ ~wave_active_ /\ wave_ >= 1 /\ selected_type_ # "Thunder" /\ KeySelect("Thunder")
        \/ ~wave_active_ /\ selected_type_ = "Thunder" /\ Len(towers_) = 0 /\ KeyPlace
        \/ ~wave_active_ /\ wave_ >= 1 /\ KeyUpgrade
        \/ wave_active_ /\ spawn_remaining_ <= 1 /\ held_tower_ = None /\ KeyPickUp
        \/ dev_mode_ /\ wave_active_ /\ spawn_remaining_ > 0 /\ KeyDevSkip
     /\ UNCHANGED threadVars

SpecSiege == Init /\ [][NextSiege]_vars

\* A pounce: the player may fast-forward, builds Kitties before the wave,
\* upgrading each as soon as it is placed, picks one up, starts the wave
\* with it in hand and may cancel the hold while the wave runs.
PounceActions == 9
PounceMoves == 2
PounceTicks == 9

AllUpgraded == \A i \in 1..Len(towers_) : towers_[i].upgraded

NextPounce ==
  \/ wave_active_ /\ ticks < PounceTicks /\ Tick /\ UNCHANGED threadVars
  \/ /\ ~wave_active_ /\ AllUpgraded
     /\ moves < PounceMoves /\ moves' = moves + 1 /\ UNCHANGED acts
     /\ \E d \in Steps : KeyMove(d[1], d[2])
     /\ UNCHANGED threadVars
  \/ /\ acts < PounceActions /\ acts' = acts + 1 /\ UNCHANGED moves
     /\ \/ acts = 0 /\ KeyFastForward
        \/ ~wave_active_ /\ selected_type_ # "Kitty" /\ KeySelect("Kitty")
        \/ ~wave_active_ /\ selected_type_ = "Kitty" /\ AllUpgraded /\ Room /\ KeyPlace
        \/ ~wave_active_ /\ ~AllUpgraded /\ KeyUpgrade
        \/ ~wave_active_ /\ AllUpgraded /\ held_tower_ = None /\ KeyPickUp
        \/ ~wave_active_ /\ AllUpgraded /\ held_tower_ # None /\ KeyStartWave
        \/ wave_active_ /\ held_tower_ # None /\ KeyEscape
     /\ UNCHANGED threadVars

SpecPounce == Init /\ [][NextPounce]_vars

\* A defeat: the player fast-forwards, lets the waves start themselves and
\* builds nothing, but may try to sell, and to skip the map outside dev
\* mode, before the first wave; once the game is over the player tries every key while
\* posted ticks keep arriving.  Fewer than DefeatActions keys are handled
\* before the game is over.
DefeatActions == 4
DefeatMoves == 1
DefeatTicks == 84

NextDefeat ==
  \/ (wave_active_ \/ game_over_) /\ ticks < DefeatTicks /\ Tick /\ UNCHANGED threadVars
  \/ /\ ~game_over_ /\ acts < DefeatActions - 1 /\ acts' = acts + 1 /\ UNCHANGED moves
     /\ \/ KeyFastForward
        \/ wave_ = 0 /\ fast_forward_ /\ KeyAutoWave
        \/ wave_ = 0 /\ KeySell
        \/ wave_ = 0 /\ ~dev_mode_ /\ KeyDevSkip
     /\ UNCHANGED threadVars
  \/ /\ game_over_ /\ moves < DefeatMoves /\ moves' = moves + 1 /\ UNCHANGED acts
     /\ \E d \in Steps : KeyMove(d[1], d[2])
     /\ UNCHANGED threadVars
  \/ game_over_ /\ acts < DefeatActions /\ acts' = acts + 1 /\ UNCHANGED moves /\ Event /\ UNCHANGED threadVars

SpecDefeat == Init /\ [][NextDefeat]_vars

\* A nap: the player walks the cursor over the board and buys, upgrades,
\* picks up, puts down and cancels holds of Catatonic units before the
\* first wave.
NapActions == 5
NapMoves == 11

NextNap ==
  \/ /\ moves < NapMoves /\ moves' = moves + 1 /\ UNCHANGED acts
     /\ \E d \in Steps : KeyMove(d[1], d[2])
     /\ UNCHANGED threadVars
  \/ /\ acts < NapActions /\ acts' = acts + 1 /\ UNCHANGED moves
     /\ \/ selected_type_ # "Catatonic" /\ KeySelect("Catatonic")
        \/ selected_type_ = "Catatonic" /\ (Room \/ held_tower_ # None) /\ KeyPlace
        \/ KeyPickUp
        \/ KeyEscape
        \/ KeyUpgrade
     /\ UNCHANGED threadVars

SpecNap == Init /\ [][NextNap]_vars

\* -------------------------------------------------------------- threads
\* GameComponent with its two threads spelled out.  The ticker thread
\* tests running_, sleeps and posts Event::Custom to the screen; the thread
\* that runs the screen's loop takes one posted task or one key at a time
\* and calls OnEvent with it.  A handler is split in two steps, taking the
\* event and running OnEvent, so that the ticker can run in between.  The
\* specifications above leave the ticker and the queue implicit.
ThreadActions == 2
ThreadTicks == 3
MaxPosted == 2

\* ticker_: while (running_)
TickerTest ==
  /\ ticker_pc = "test"
  /\ ticker_pc' = IF running_ THEN "post" ELSE "done"
  /\ UNCHANGED <<gameVars, historyVars, running_, posted, on_event>>

\* ticker_ calling Game::Tick itself instead of posting.
TickerPostMutDirectTick ==
  /\ ticker_pc = "post"
  /\ ticker_pc' = "test"
  /\ ticks < ThreadTicks
  /\ Tick
  /\ UNCHANGED <<running_, posted, on_event>>

\* ticker_: sleep_for(kTickMs); screen_.Post(Event::Custom)
TickerPost ==
  /\ ticker_pc = "post"
  /\ posted < MaxPosted
  /\ posted' = posted + 1
  /\ ticker_pc' = "test"
  /\ UNCHANGED <<gameVars, historyVars, running_, on_event>>

\* screen.Loop: the next task is a posted Event::Custom
TakeCustom ==
  /\ on_event = ""
  /\ posted > 0 /\ ticks < ThreadTicks
  /\ posted' = posted - 1
  /\ on_event' = "Custom"
  /\ UNCHANGED <<gameVars, historyVars, running_, ticker_pc>>

\* screen.Loop: the next task is a key
TakeKey ==
  /\ on_event = ""
  /\ acts < ThreadActions
  /\ on_event' \in {"key", "q"}
  /\ UNCHANGED <<gameVars, historyVars, running_, ticker_pc, posted>>

\* OnEvent: event == Event::Custom
OnCustom ==
  /\ on_event = "Custom"
  /\ Tick
  /\ running_' = (running_ /\ ~game_over_')
  /\ on_event' = ""
  /\ UNCHANGED <<ticker_pc, posted>>

\* OnEvent: return game_.HandleEvent(event)
OnKey ==
  /\ on_event = "key"
  /\ acts' = acts + 1 /\ UNCHANGED moves
  /\ Event
  /\ on_event' = ""
  /\ UNCHANGED <<running_, ticker_pc, posted>>

\* OnEvent: event == Character('q'); the loop ends
OnQuit ==
  /\ on_event = "q"
  /\ running_' = FALSE
  /\ on_event' = "exit"
  /\ UNCHANGED <<gameVars, historyVars, ticker_pc, posted>>

NextThreads ==
  \/ TickerTest
  \/ TickerPost
  \/ TakeCustom
  \/ TakeKey
  \/ OnCustom
  \/ OnKey
  \/ OnQuit

SpecThreads == Init /\ [][NextThreads]_vars

\* ------------------------------------------------------- target selection
\* FindTarget applied to the states TowersAct can find in the middle of a
\* tick: up to TargetEnemies units on map 0, alive or already at hp 0, and
\* one ready unit of a bounded or the unbounded range.
TargetEnemies == 3

TargetUnits ==
  {[path_progress |-> pr, speed |-> ApplyEnemyStats("Mouse", 1).speed,
    hp |-> hp, max_hp |-> ApplyEnemyStats("Mouse", 1).max_hp,
    lane_offset |-> 0, type |-> "Mouse", sleep_timer |-> 0,
    id |-> 0, paid |-> 0, knocked |-> FALSE, escaped |-> FALSE]
     : pr \in {0, ProgressUnit \div 2, ProgressUnit, ProgressUnit + 1}, hp \in {0, 2}}

InitTarget ==
  /\ dev_mode_ = FALSE
  /\ \E n \in 0..TargetEnemies : enemies_ \in [1..n -> TargetUnits]
  /\ \E type \in {"Default", "Thunder"} : \E x \in {3, 5, 7} :
       towers_ = <<NewTower(GetDef(type), Pos(x, BoardH \div 2), 0)>>
  /\ projectiles_ = <<>>
  /\ held_tower_ = None
  /\ cursor_ = Pos(3, BoardH \div 2)
  /\ selected_type_ = "Default"
  /\ unlocked_ = {"Thunder"}
  /\ overlay_enabled_ = TRUE
  /\ auto_waves_ = FALSE
  /\ fast_forward_ = FALSE
  /\ map_index_ = 0
  /\ kibbles_ = 0
  /\ lives_ = kStartingLives
  /\ wave_ = 1
  /\ wave_active_ = TRUE
  /\ game_over_ = FALSE
  /\ spawn_remaining_ = 1
  /\ spawn_cooldown_ms_ = kSpawnIntervalMs
  /\ next_id = 1
  /\ obs = NoObs
  /\ last = ""
  /\ declined = FALSE
  /\ moves = 0
  /\ acts = 0
  /\ ticks = 0
  /\ toggled_odd = FALSE
  /\ handled = FALSE
  /\ running_ = TRUE
  /\ ticker_pc = "test"
  /\ posted = 0
  /\ on_event = ""

\* FindTarget(towers_[0]) as TowersAct calls it.
ApplyFindTarget ==
  /\ last = ""
  /\ last' = "target"
  /\ obs' = [obs EXCEPT !.target = FindTarget(Game, towers_[1])]
  /\ UNCHANGED <<gameVars, threadVars, next_id, declined, moves, acts, ticks,
                 toggled_odd, handled>>

SpecTarget == InitTarget /\ [][ApplyFindTarget]_vars

\* ---------------------------------------------------------------- volley
\* A volley: a wave of map 0 is under way, its last unit spawned; up to
\* VolleyEnemies mice are on the path, some wounded, and one Default unit,
\* upgraded or not, stands ready east of the path.  Time runs, fast-forward
\* or not, for VolleyTicks ticks.
VolleyEnemies == 4
VolleyTicks == 3

VolleyUnits ==
  {[path_progress |-> pr, speed |-> ApplyEnemyStats("Mouse", 1).speed,
    hp |-> hp, max_hp |-> ApplyEnemyStats("Mouse", 1).max_hp,
    lane_offset |-> 0, type |-> "Mouse", sleep_timer |-> 0,
    id |-> 0, paid |-> 0, knocked |-> FALSE, escaped |-> FALSE]
     : pr \in {ProgressUnit \div 5, (3 * ProgressUnit) \div 4, ProgressUnit + 1},
       hp \in {1, ApplyEnemyStats("Mouse", 1).max_hp}}

InitVolley ==
  /\ dev_mode_ = TRUE
  /\ \E n \in 0..VolleyEnemies : enemies_ \in [1..n -> VolleyUnits]
  /\ \E up \in BOOLEAN : \E x \in {3, 5} :
       towers_ = <<[NewTower(GetDef("Default"), Pos(x, BoardH \div 2), 0)
                      EXCEPT !.upgraded = up]>>
  /\ projectiles_ = <<>>
  /\ held_tower_ = None
  /\ cursor_ = Pos(3, BoardH \div 2)
  /\ selected_type_ = "Default"
  /\ unlocked_ = TowerTypes \ {"Default"}
  /\ overlay_enabled_ = TRUE
  /\ auto_waves_ = FALSE
  /\ fast_forward_ \in BOOLEAN
  /\ map_index_ = 0
  /\ kibbles_ = kDevKibbles
  /\ lives_ = kStartingLives
  /\ wave_ = 1
  /\ wave_active_ = TRUE
  /\ game_over_ = FALSE
  /\ spawn_remaining_ = 0
  /\ spawn_cooldown_ms_ = kSpawnIntervalMs
  /\ next_id = 1
  /\ obs = NoObs
  /\ last = ""
  /\ declined = FALSE
  /\ moves = 0
  /\ acts = 0
  /\ ticks = 0
  /\ toggled_odd = fast_forward_
  /\ handled = FALSE
  /\ running_ = TRUE
  /\ ticker_pc = "test"
  /\ posted = 0
  /\ on_event = ""

NextVolley == ticks < VolleyTicks /\ Tick /\ UNCHANGED threadVars

SpecVolley == InitVolley /\ [][NextVolley]_vars

\* ----------------------------------------------------------------- carry
\* A carry: a volley in dev mode; with projectiles in the air the player
\* skips to the second map, and then starts its first wave.  No defensive
\* unit is ever placed on the second map, so a projectile that is in
\* flight there was fired on the first.
CarryTicks == 4

NextCarry ==
  \/ ticks < CarryTicks /\ Tick /\ UNCHANGED threadVars
  \/ /\ acts' = acts + 1 /\ UNCHANGED moves
     /\ \/ acts = 0 /\ projectiles_ # <<>> /\ KeyDevSkip
        \/ acts = 1 /\ KeyStartWave
     /\ UNCHANGED threadVars

SpecCarry == InitVolley /\ [][NextCarry]_vars

\* ----------------------------------------------------------------- swipe
\* A swipe: as in a volley with up to SwipeEnemies mice, but the one
\* defensive unit is a Kitty, upgraded or not, standing ready on one of the
\* cells of SwipePosts: east of the path in each row, one cell further east,
\* and north and south of the path.
SwipeEnemies == 3

SwipePosts ==
  {Pos(3, 0), Pos(3, BoardH \div 2), Pos(3, BoardH - 1), Pos(4, BoardH \div 2),
   Pos(1, 0), Pos(1, BoardH - 1)}

InitSwipe ==
  /\ dev_mode_ = TRUE
  /\ \E n \in 0..SwipeEnemies : enemies_ \in [1..n -> VolleyUnits]
  /\ \E up \in BOOLEAN : \E p \in SwipePosts :
       towers_ = <<[NewTower(GetDef("Kitty"), p, 0) EXCEPT !.upgraded = up]>>
  /\ projectiles_ = <<>>
  /\ held_tower_ = None
  /\ cursor_ = Pos(3, BoardH \div 2)
  /\ selected_type_ = "Kitty"
  /\ unlocked_ = TowerTypes \ {"Default"}
  /\ overlay_enabled_ = TRUE
  /\ auto_waves_ = FALSE
  /\ fast_forward_ \in BOOLEAN
  /\ map_index_ = 0
  /\ kibbles_ = kDevKibbles
  /\ lives_ = kStartingLives
  /\ wave_ = 1
  /\ wave_active_ = TRUE
  /\ game_over_ = FALSE
  /\ spawn_remaining_ = 0
  /\ spawn_cooldown_ms_ = kSpawnIntervalMs
  /\ next_id = 1
  /\ obs = NoObs
  /\ last = ""
  /\ declined = FALSE
  /\ moves = 0
  /\ acts = 0
  /\ ticks = 0
  /\ toggled_odd = fast_forward_
  /\ handled = FALSE
  /\ running_ = TRUE
  /\ ticker_pc = "test"
  /\ posted = 0
  /\ on_event = ""

SpecSwipe == InitSwipe /\ [][NextVolley]_vars

\* ------------------------------------------------------------------ rout
\* A rout: the first wave of the second map is nearly over.  Its last
\* RoutEnemies units at most are close to the end of the path, nothing is
\* left to spawn, no defensive unit stands, and one or two lives are left;
\* the waves start themselves or not.  Time runs, fast-forward or not, for
\* RoutTicks ticks.
RoutEnemies == 2
RoutTicks == 4

RoutUnits ==
  {[path_progress |-> pr,
    speed |-> ApplyEnemyStats(ty, DifficultyLevel(WavesPerMap + 1, 1)).speed,
    hp |-> ApplyEnemyStats(ty, DifficultyLevel(WavesPerMap + 1, 1)).max_hp,
    max_hp |-> ApplyEnemyStats(ty, DifficultyLevel(WavesPerMap + 1, 1)).max_hp,
    lane_offset |-> lane, type |-> ty, sleep_timer |-> 0,
    id |-> 0, paid |-> 0, knocked |-> FALSE, escaped |-> FALSE]
     : pr \in {(Len(PathOf(1)) - 1) * ProgressUnit - ProgressUnit \div 10,
                (Len(PathOf(1)) - 1) * ProgressUnit - ProgressUnit \div 100},
       ty \in {"Mouse", "Rat"}, lane \in {-1, 0}}

InitRout ==
  /\ dev_mode_ = TRUE
  /\ \E n \in 1..RoutEnemies : enemies_ \in [1..n -> RoutUnits]
  /\ towers_ = <<>>
  /\ projectiles_ = <<>>
  /\ held_tower_ = None
  /\ cursor_ = Pos(3, BoardH \div 2)
  /\ selected_type_ = "Default"
  /\ unlocked_ = TowerTypes \ {"Default"}
  /\ overlay_enabled_ = TRUE
  /\ auto_waves_ \in BOOLEAN
  /\ fast_forward_ \in BOOLEAN
  /\ map_index_ = 1
  /\ kibbles_ = kDevKibbles
  /\ lives_ \in 1..2
  /\ wave_ = WavesPerMap + 1
  /\ wave_active_ = TRUE
  /\ game_over_ = FALSE
  /\ spawn_remaining_ = 0
  /\ spawn_cooldown_ms_ = kSpawnIntervalMs
  /\ next_id = 1
  /\ obs = NoObs
  /\ last = ""
  /\ declined = FALSE
  /\ moves = 0
  /\ acts = 0
  /\ ticks = 0
  /\ toggled_odd = fast_forward_
  /\ handled = FALSE
  /\ running_ = TRUE
  /\ ticker_pc = "test"
  /\ posted = 0
  /\ on_event = ""

NextRout == ticks < RoutTicks /\ Tick /\ UNCHANGED threadVars

SpecRout == InitRout /\ [][NextRout]_vars

\* ------------------------------------------------------------------ lull
\* A lull: before the first wave the player switches fast-forward on, may
\* build and upgrade a Catatonic or a Galactic unit where the cursor is,
\* within reach of the whole path, and starts the wave; from then on the
\* player only watches.  The ticker keeps
\* posting ticks, so a tick that can be taken is taken.
LullActions == 5
LullTicks == 140

LullTick == wave_active_ /\ ticks < LullTicks /\ Tick /\ UNCHANGED threadVars

NextLull ==
  \/ LullTick
  \/ /\ wave_ = 0 /\ acts < LullActions /\ acts' = acts + 1 /\ UNCHANGED moves
     /\ \/ ~fast_forward_ /\ KeyFastForward
        \/ \E type \in {"Catatonic", "Galactic"} : selected_type_ # type /\ KeySelect(type)
        \/ selected_type_ # "Default" /\ Room /\ KeyPlace
        \/ towers_ # <<>> /\ KeyUpgrade
        \/ fast_forward_ /\ KeyStartWave
     /\ UNCHANGED threadVars

\* The step of the clock alone.  Under NextLull a step that changes ticks is
\* a LullTick step, and Tick has an outcome in every state, so LullClock is
\* enabled exactly when LullTick is and weak fairness of one is weak fairness
\* of the other: the ticker thread calls Tick every kTickMs for as long as
\* the program runs.
LullClock == wave_active_ /\ ticks < LullTicks /\ ticks' = ticks + 1

SpecLull == Init /\ [][NextLull]_vars /\ WF_ticks(LullClock)

\* ------------------------------------------------------------------ doze
\* A doze: the player may fast-forward, walks the cursor, buys a Catatonic
\* unit and may upgrade it, starts the first wave, and while it runs may
\* sell the unit and buy another.
DozeActions == 7
DozeMoves == 1
DozeTicks == 4

NextDoze ==
  \/ wave_active_ /\ ticks < DozeTicks /\ Tick /\ UNCHANGED threadVars
  \/ /\ ~wave_active_ /\ moves < DozeMoves /\ moves' = moves + 1 /\ UNCHANGED acts
     /\ \E d \in Steps : KeyMove(d[1], d[2])
     /\ UNCHANGED threadVars
  \/ /\ acts < DozeActions /\ acts' = acts + 1 /\ UNCHANGED moves
     /\ \/ wave_ = 0 /\ ~fast_forward_ /\ KeyFastForward
        \/ selected_type_ # "Catatonic" /\ KeySelect("Catatonic")
        \/ selected_type_ = "Catatonic" /\ towers_ = <<>> /\ KeyPlace
        \/ ~wave_active_ /\ towers_ # <<>> /\ KeyUpgrade
        \/ wave_ = 0 /\ towers_ # <<>> /\ KeyStartWave
        \/ wave_active_ /\ towers_ # <<>> /\ KeySell
     /\ UNCHANGED threadVars

SpecDoze == Init /\ [][NextDoze]_vars

\* ------------------------------------------------------------------ shop
\* Shopping on the second map, just after the first one was cleared: nothing
\* is unlocked yet, the board is empty, and the player has saved one of
\* ShopKibbles.  The player walks the cursor, presses the type keys, buys
\* and sells.
ShopKibbles == {90, 549, 550, 1000, 3850, 10000}
ShopActions == 5
ShopMoves == 2

InitShop ==
  /\ dev_mode_ = FALSE
  /\ enemies_ = <<>>
  /\ towers_ = <<>>
  /\ projectiles_ = <<>>
  /\ held_tower_ = None
  /\ cursor_ = Pos(3, BoardH \div 2)
  /\ selected_type_ = "Default"
  /\ unlocked_ = {}
  /\ overlay_enabled_ = TRUE
  /\ auto_waves_ = FALSE
  /\ fast_forward_ = FALSE
  /\ map_index_ = 1
  /\ kibbles_ \in ShopKibbles
  /\ lives_ = kStartingLives
  /\ wave_ = WavesPerMap
  /\ wave_active_ = FALSE
  /\ game_over_ = FALSE
  /\ spawn_remaining_ = 0
  /\ spawn_cooldown_ms_ = 0
  /\ next_id = 1
  /\ obs = NoObs
  /\ last = ""
  /\ declined = FALSE
  /\ moves = 0
  /\ acts = 0
  /\ ticks = 0
  /\ toggled_odd = FALSE
  /\ handled = FALSE
  /\ running_ = TRUE
  /\ ticker_pc = "test"
  /\ posted = 0
  /\ on_event = ""

NextShop ==
  \/ /\ moves < ShopMoves /\ moves' = moves + 1 /\ UNCHANGED acts
     /\ \E d \in Steps : KeyMove(d[1], d[2])
     /\ UNCHANGED threadVars
  \/ /\ acts < ShopActions /\ acts' = acts + 1 /\ UNCHANGED moves
     /\ \/ \E type \in TowerTypes : KeySelect(type)
        \/ Room /\ KeyPlace
        \/ KeySell
     /\ UNCHANGED threadVars

SpecShop == InitShop /\ [][NextShop]_vars

\* ---------------------------------------------------------------- claims
\* C1 (as stated): a hostile unit's bounty is awarded exactly once, on the
\* hit that first brings its hp to 0 or below, and never on a later hit,
\* even when several attacks hit it within one tick.  obs.max_paid is the
\* greatest number of awards any unit removed by the last tick caused.
C1BountyOnce == obs.max_paid <= 1

\* The pairs (unit before the step, the same unit after it).
SameUnit(i, j) == enemies_[i].id = enemies_'[j].id

\* C4 (as stated): across every Tick a unit's path_progress is unchanged
\* while its sleep timer is greater than 0 and non-decreasing while it is 0,
\* whatever fires during the tick.
C4Monotone ==
  [][last' = "tick" =>
       \A i \in 1..Len(enemies_) : \A j \in 1..Len(enemies_') :
         SameUnit(i, j) =>
           /\ enemies_[i].sleep_timer > 0 =>
                enemies_'[j].path_progress = enemies_[i].path_progress
           /\ enemies_[i].sleep_timer = 0 =>
                enemies_'[j].path_progress >= enemies_[i].path_progress]_vars

\* C4 (amended): across every Tick a unit's path_progress is unchanged
\* while its sleep timer is greater than 0 and non-decreasing while it is 0,
\* unless an upgraded Galactic's void proc hit the unit in that tick: then
\* it is moved back, to no less than 0 and to no more than where the
\* tick's movement had put it.
C4MonotoneUnlessVoid ==
  [][last' = "tick" =>
       \A i \in 1..Len(enemies_) : \A j \in 1..Len(enemies_') :
         SameUnit(i, j) =>
           LET a == enemies_[i]
               b == enemies_'[j]
               step == IF a.sleep_timer > 0 THEN 0
                       ELSE a.speed * kTickMs * TimeScale(fast_forward_)
           IN  IF b.knocked
                 THEN b.path_progress >= 0 /\ b.path_progress <= a.path_progress + step
                 ELSE b.path_progress = a.path_progress + step]_vars

\* The first unit of the wave, on the board for at least one earlier tick,
\* has been thrown back by a void proc in the last tick and lives.
C4Witness ==
  /\ last = "tick"
  /\ ticks >= 2
  /\ \E k \in 1..Len(enemies_) :
       enemies_[k].id = 1 /\ enemies_[k].knocked /\ enemies_[k].hp > 0

\* C5: when a Tick returns (and so in every state between events) no
\* hostile unit in the collection has hp <= 0.
C5NoDeadUnits == \A k \in 1..Len(enemies_) : enemies_[k].hp > 0

\* The last tick removed a unit that an attack had brought to hp <= 0.
C5Witness == last = "tick" /\ obs.removed > obs.escaped

\* The cell under the cursor can take the selected type: the conditions of
\* CanPlace, spelled out.
C6Placeable ==
  LET def == GetDef(selected_type_)
  IN  /\ Footprint(cursor_, def.size) \subseteq Cells
      /\ Footprint(cursor_, def.size) \cap PathMaskOf(map_index_) = {}
      /\ \A i \in 1..Len(towers_) :
           Footprint(cursor_, def.size)
             \cap Footprint(towers_[i].pos, towers_[i].size) = {}
      /\ ~CatatonicConflict(towers_, cursor_, def.size, def.type, def.range, FALSE)

\* C6: a purchase (the place key with nothing held) adds a unit only when
\* the cursor cell is placeable for the selected type, the type is unlocked
\* and currency >= cost; it then adds exactly one unit, of the selected
\* type at the cursor, and currency decreases by exactly the base cost.
C6Purchase ==
  [][(last' = "c" /\ held_tower_ = None /\ towers_' # towers_) =>
       LET def == GetDef(selected_type_)
       IN  /\ C6Placeable
           /\ IsUnlocked(selected_type_)
           /\ kibbles_ >= def.cost
           /\ Len(towers_') = Len(towers_) + 1
           /\ SubSeq(towers_', 1, Len(towers_)) = towers_
           /\ towers_'[Len(towers_')].pos = cursor_
           /\ towers_'[Len(towers_')].type = selected_type_
           /\ ~towers_'[Len(towers_')].upgraded
           /\ kibbles_' = kibbles_ - def.cost]_vars

\* A fresh game's first purchase: one Default unit, currency 90 - 35.
C6Witness ==
  /\ ~dev_mode_ /\ last = "c" /\ ~declined
  /\ Len(towers_) = 1 /\ towers_[1].pos = cursor_
  /\ kibbles_ = kStartingKibbles - GetDef("Default").cost

\* The invalid player actions C7 lists, as conditions on a step.
C7InvalidEdit ==
  \/ /\ last' = "c" /\ held_tower_ = None
     /\ (kibbles_ < GetDef(selected_type_).cost \/ ~C6Placeable)
  \/ /\ last' = "u" /\ TowerIndexAt(towers_, cursor_) # 0
     /\ LET t == towers_[TowerIndexAt(towers_, cursor_)]
        IN  t.upgraded \/ kibbles_ < GetDef(t.type).cost * 5
  \/ /\ (last' = "x" \/ (last' = "m" /\ held_tower_ = None))
     /\ TowerIndexAt(towers_, cursor_) = 0
  \/ /\ last' \in TowerTypes /\ ~IsUnlocked(last')
     /\ kibbles_ < GetDef(last').cost * 10

C7InvalidStart == last' = "n" /\ wave_active_

C7Kept ==
  UNCHANGED <<kibbles_, lives_, towers_, held_tower_, unlocked_, wave_, wave_active_,
              spawn_remaining_, spawn_cooldown_ms_>>

\* C7 (as stated): every invalid player action (a purchase with
\* insufficient funds or at an illegal or occupied cell, an upgrade of an
\* upgraded or unaffordable unit, a sell or pick-up with no unit under the
\* cursor, an unaffordable unlock, a start-wave request while a wave is
\* active) leaves currency, lives, the placed units, the held slot, the
\* unlocked set, the wave state and the auto-wave flag unchanged.
C7Declines ==
  [][(C7InvalidEdit \/ C7InvalidStart) => (C7Kept /\ UNCHANGED auto_waves_)]_vars

\* C7 (amended): every invalid player action leaves currency, lives, the
\* placed units, the held slot, the unlocked set and the wave state
\* unchanged; the invalid purchases, upgrades, sells, pick-ups and unlocks
\* also leave the auto-wave flag unchanged, while a start-wave request
\* during an active wave clears it.
C7DeclinesButManual ==
  [][/\ C7InvalidEdit => (C7Kept /\ UNCHANGED auto_waves_)
     /\ C7InvalidStart => (C7Kept /\ ~auto_waves_')]_vars

\* A fresh game's second purchase at the cell just bought: it is refused and
\* currency stays at 90 - 35.
C7Witness ==
  /\ ~dev_mode_ /\ last = "c" /\ declined
  /\ Len(towers_) = 1 /\ towers_[1].pos = cursor_
  /\ kibbles_ = kStartingKibbles - GetDef("Default").cost

\* C9: StartWave called while a wave is active or after game over changes
\* neither the wave counter, nor spawn_remaining, nor the spawn cooldown,
\* nor wave_active.
C9StartWaveNoOp ==
  [][(last' = "n" /\ (wave_active_ \/ game_over_)) => UNCHANGED waveVars]_vars

\* The start-wave key pressed twice: the second call found the wave active,
\* and the game is still in wave 1 with its whole batch to spawn.
C9Witness ==
  /\ last = "n" /\ declined /\ wave_active_ /\ wave_ = 1 /\ ticks = 0
  /\ spawn_remaining_ = 6 + 2 * DifficultyLevel(1, 0)

\* C2 (as stated): whenever lives reaches 0 during a Tick, the game is over
\* when that Tick returns, auto-wave is cleared and lives is not positive.
\* obs.lives_zero records that lives was 0 when the last tick reached its
\* completion check.
C2Terminal == obs.lives_zero => (game_over_ /\ ~auto_waves_ /\ lives_ = 0)

\* C8: a tick reports the wave complete (pays the completion bonus and
\* leaves the active state) if and only if, at its completion check, a wave
\* was active, spawn_remaining was 0 and no hostile unit remained.
C8CompleteIff ==
  obs.completed <=>
    (obs.check_active /\ obs.check_spawn = 0 /\ obs.check_enemies = 0)

\* The last tick completed a wave.
C8Witness == last = "tick" /\ obs.completed /\ wave_ >= 1

\* C3 (as stated): in every reachable state no two placed defensive units
\* have overlapping footprints and no placed unit's footprint covers a cell
\* of the path-occupancy mask.
C3NoOverlap ==
  /\ \A i, j \in 1..Len(towers_) :
       i # j => Footprint(towers_[i].pos, towers_[i].size)
                  \cap Footprint(towers_[j].pos, towers_[j].size) = {}
  /\ \A i \in 1..Len(towers_) :
       Footprint(towers_[i].pos, towers_[i].size) \cap PathMaskOf(map_index_) = {}

\* C10 (as stated): when two or more upgraded melee units are ready in the
\* same tick, the batch relocation assigns no two of them the same
\* destination cell, and no unit lands on a path cell, inside a non-jumping
\* unit's footprint, or on another jumping unit's pre-jump cell.  obs holds
\* the jumping units of the last tick, their cells before the batch, the
\* planned destinations and their cells after it.
C10Batch ==
  Cardinality(obs.jumpers) >= 2 =>
    /\ \A i, j \in DOMAIN obs.planned : i # j => obs.planned[i] # obs.planned[j]
    /\ \A i, j \in obs.jumpers :
         i # j => /\ obs.landing[i] # obs.landing[j]
                  /\ obs.landing[i] # obs.pre_pos[j]
    /\ \A i \in obs.jumpers :
         /\ obs.landing[i] \notin PathMaskOf(obs.kitty_map)
         /\ obs.landing[i] \notin obs.static

\* The last path index of the current map, in whole cells.
C11EndIndex == Len(PathOf(map_index_)) - 1

\* The units of the state that the coming tick moves onto the last index.
C11Escaping ==
  {i \in 1..Len(enemies_) :
     /\ enemies_[i].sleep_timer = 0
     /\ (enemies_[i].path_progress + enemies_[i].speed * kTickMs * TimeScale(fast_forward_))
          \div ProgressUnit >= C11EndIndex}

\* C11: each hostile unit whose floored path_progress reaches the last path
\* index in a tick is gone when the tick returns (hp forced to 0, removed)
\* and costs exactly one life, lives being clamped at 0; no unit that has
\* reached the last index is left to cost a life in a later tick, and
\* units that have not reached it cost none.  The count of lives is read on
\* ticks that stay on the map: a completion that advances the map resets it.
C11EscapeOnce ==
  [][(last' = "tick" /\ ~game_over_) =>
       /\ \A i \in C11Escaping : \A j \in 1..Len(enemies_') : ~SameUnit(i, j)
       /\ \A j \in 1..Len(enemies_') :
            enemies_'[j].path_progress \div ProgressUnit < C11EndIndex
       /\ map_index_' = map_index_ =>
            lives_' = Max(0, lives_ - Cardinality(C11Escaping))]_vars

\* The last tick removed an escaping unit and a life went with it.
C11Witness ==
  /\ last = "tick" /\ obs.escaped >= 1 /\ map_index_ = 0
  /\ lives_ < kStartingLives /\ lives_ > 0

\* The first placed unit whose footprint holds the cursor, 0 for none.
UnderCursor ==
  IF \E i \in 1..Len(towers_) : cursor_ \in Footprint(towers_[i].pos, towers_[i].size)
    THEN CHOOSE i \in 1..Len(towers_) :
           /\ cursor_ \in Footprint(towers_[i].pos, towers_[i].size)
           /\ \A j \in 1..(i - 1) : cursor_ \notin Footprint(towers_[j].pos, towers_[j].size)
    ELSE 0

\* After the sale of unit t nothing else occupies or excludes its cell.
C12Free(t) ==
  /\ \A i \in 1..Len(towers_') :
       Footprint(t.pos, t.size) \cap Footprint(towers_'[i].pos, towers_'[i].size) = {}
  /\ ~CatatonicConflict(towers_', t.pos, t.size, t.type, t.range, t.upgraded)

\* C12: selling the unit under the cursor with no unit held increases
\* currency by exactly round(0.6 * base cost of its type) whatever its
\* upgrade flag, removes exactly that unit from the placed units, and
\* afterwards CanPlace is true at its former position for its size and type
\* when no other unit occupies or excludes it.
C12Sell ==
  [][(last' = "x" /\ ~game_over_ /\ held_tower_ = None /\ UnderCursor # 0) =>
       LET t == towers_[UnderCursor]
       IN  /\ (10 * (kibbles_' - kibbles_) - 6 * GetDef(t.type).cost) \in (-4)..5
           /\ Len(towers_') = Len(towers_) - 1
           /\ \A k \in 1..Len(towers_') :
                towers_'[k] = IF k < UnderCursor THEN towers_[k] ELSE towers_[k + 1]
           /\ held_tower_' = held_tower_
           /\ C12Free(t) =>
                CanPlace(towers_', map_index_, t.pos, t.size, t.type, t.range, t.upgraded)]_vars

\* An upgraded Default unit has just been sold for 21, the board is empty.
C12Witness ==
  /\ last = "x" /\ ~declined /\ towers_ = <<>> /\ acts = 3
  /\ kibbles_ = kDevKibbles - 35 - 5 * 35 + 21

\* C13: picking up a placed unit and then immediately cancelling the hold
\* restores the unit to its exact prior position with identical damage,
\* range, fire rate, cooldown, type, size and upgrade flag, and leaves
\* currency unchanged.  Stated over the two steps: the pick-up moves the
\* unit under the cursor, as it is, into the held slot with its position as
\* the original one, and the cancel that follows at once appends the held
\* unit, as it is, to the placed units; neither step changes currency.
C13PickUpCancel ==
  [][/\ (last' = "m" /\ ~game_over_ /\ held_tower_ = None /\ UnderCursor # 0) =>
          /\ held_tower_' = [tower |-> towers_[UnderCursor],
                             original |-> towers_[UnderCursor].pos]
          /\ Len(towers_') = Len(towers_) - 1
          /\ \A k \in 1..Len(towers_') :
               towers_'[k] = IF k < UnderCursor THEN towers_[k] ELSE towers_[k + 1]
          /\ kibbles_' = kibbles_
     /\ (last = "m" /\ ~declined /\ held_tower_ # None /\ last' = "Escape") =>
          /\ held_tower_.tower.pos = held_tower_.original
          /\ towers_' = Append(towers_, held_tower_.tower)
          /\ held_tower_' = None
          /\ kibbles_' = kibbles_]_vars

\* A fresh game: one unit bought, picked up and the hold cancelled at once;
\* the unit stands where it was bought and currency is 90 - 35.
C13Witness ==
  /\ ~dev_mode_ /\ last = "Escape" /\ ~declined
  /\ acts = 3 /\ moves = 0 /\ ticks = 0
  /\ held_tower_ = None /\ Len(towers_) = 1 /\ towers_[1].pos = cursor_
  /\ kibbles_ = kStartingKibbles - GetDef("Default").cost

\* C14: once game_over_ is true it stays true, and every later Tick and
\* every later key leaves currency, lives, the wave number, wave_active_,
\* the map index, the hostile units, the defensive units, the held slot and
\* the projectiles unchanged.
C14Frozen ==
  [][game_over_ =>
       /\ game_over_'
       /\ UNCHANGED <<kibbles_, lives_, wave_, wave_active_, map_index_,
                      enemies_, towers_, held_tower_, projectiles_>>]_vars

\* A tick has returned at once after the game was lost with units still on
\* the path, and a key was handled after the loss (SpecDefeat handles fewer
\* than DefeatActions keys before it).
C14Witness ==
  /\ game_over_ /\ last = "tick" /\ declined
  /\ acts = DefeatActions /\ moves = DefeatMoves
  /\ wave_active_ /\ enemies_ # <<>>

C16AutoStart ==
  (last = "tick" /\ obs.completed /\ obs.check_state.auto_waves) =>
    (wave_active_ /\ wave_ = obs.check_state.wave + 1)

\* C16 (corrected): the next wave is started at once unless the completed
\* wave is the last of its map; then AdvanceMap has switched auto_waves_
\* off before it is read, and the Tick returns with no wave running and the
\* wave counter unchanged.
C16AutoStartSameMap ==
  (last = "tick" /\ obs.completed /\ obs.check_state.auto_waves) =>
    IF obs.check_state.wave % WavesPerMap # 0
      THEN wave_active_ /\ wave_ = obs.check_state.wave + 1
      ELSE ~wave_active_ /\ wave_ = obs.check_state.wave /\ ~auto_waves_

\* A wave that is not the last of its map completed under auto_waves_ and
\* the next one is running.
C16Witness ==
  /\ last = "tick" /\ obs.completed /\ obs.check_state.auto_waves
  /\ obs.check_state.wave % WavesPerMap # 0
  /\ wave_active_ /\ ~game_over_ /\ auto_waves_
  /\ spawn_remaining_ = 6 + DifficultyLevel(wave_, map_index_) * 2

\* C17 (as stated): no two placed Catatonic units have centres within the
\* sum of their effective ranges (range, plus kCatatonicUpgradeRange for an
\* upgraded unit), after any sequence of purchases, upgrades, pick-ups,
\* re-placements and cancelled holds.  Centres are in half cells and ranges
\* in tenths of a cell: d <= r is 25 * (2d)^2 <= (10r)^2.
C17Spacing ==
  \A i \in 1..Len(towers_) : \A j \in (i + 1)..Len(towers_) :
    (towers_[i].type = "Catatonic" /\ towers_[j].type = "Catatonic") =>
      25 * ((TowerCenter(towers_[i]).x - TowerCenter(towers_[j]).x)
              * (TowerCenter(towers_[i]).x - TowerCenter(towers_[j]).x)
            + (TowerCenter(towers_[i]).y - TowerCenter(towers_[j]).y)
              * (TowerCenter(towers_[i]).y - TowerCenter(towers_[j]).y))
        > (towers_[i].range + UpgradeBonus(towers_[i].upgraded)
             + towers_[j].range + UpgradeBonus(towers_[j].upgraded))
          * (towers_[i].range + UpgradeBonus(towers_[i].upgraded)
               + towers_[j].range + UpgradeBonus(towers_[j].upgraded))

\* C18 (as stated): whenever the preview is shown, it marks the footprint
\* under the cursor as placeable if and only if CanPlace is true for that
\* cell and the previewed unit: the held unit with its size, type, range and
\* upgrade flag, or else a fresh unit of the selected type.
C18PreviewAgrees ==
  show_overlay =>
    (can_place_preview <=>
       IF held_tower_ # None
         THEN CanPlace(towers_, map_index_, cursor_, held_tower_.tower.size,
                       held_tower_.tower.type, held_tower_.tower.range,
                       held_tower_.tower.upgraded)
         ELSE CanPlace(towers_, map_index_, cursor_, GetDef(selected_type_).size,
                       selected_type_, GetDef(selected_type_).range, FALSE))

\* C19: game state is changed only by the thread that handles events: a
\* step of the ticker thread changes no member of Game and calls neither
\* Tick nor a key handler; every change of a member of Game is the
\* completion of the one event being handled; and while an event is being
\* handled no other event is taken, so a Tick and a key handler never
\* interleave.
C19EventThreadOnly ==
  [][/\ (ticker_pc' # ticker_pc) => UNCHANGED <<gameVars, historyVars>>
     /\ (gameVars' # gameVars) => (on_event \in {"Custom", "key"} /\ on_event' = "")
     /\ (on_event # "" /\ on_event' # on_event) => on_event' \in {"", "exit"}
     /\ (posted' < posted) => on_event = ""]_vars

\* The ticker has posted while a Tick was waiting to run, after a key and a
\* Tick had changed the game: the queue is full although one task was taken.
C19Witness ==
  /\ on_event = "Custom" /\ posted = MaxPosted
  /\ acts >= 1 /\ ticks >= 1 /\ wave_active_ /\ enemies_ # <<>>

\* C20 (as stated): after an even number of presses of 'f', with any other
\* keys and ticks in between, the time scale is the original 1x; after an
\* odd number it is the other value, kFastForwardMultiplier.
C20Parity ==
  TimeScale(fast_forward_) = IF toggled_odd THEN kFastForwardMultiplier ELSE 1

\* C20 (corrected): the parity decides the time scale as long as the game is
\* not over; once it is over, 'f' like every key is ignored and the time
\* scale stays what it was.
C20ParityUntilOver ==
  /\ [](~game_over_ => C20Parity)
  /\ [][game_over_ => TimeScale(fast_forward_') = TimeScale(fast_forward_)]_vars

\* Two presses with another key and ticks in between, in a running wave.
C20Witness ==
  /\ ~game_over_ /\ last = "f" /\ acts = 3 /\ ticks >= 1 /\ wave_active_
  /\ ~toggled_odd /\ TimeScale(fast_forward_) = 1

\* C21 (as stated): HandleEvent returns false for every action that is
\* declined and changes no state: a declined purchase, upgrade, sale,
\* pick-up, unlock or start-wave request.
C21DeclinedNotHandled ==
  (last \in {"c", "u", "x", "m", "n"} \cup TowerTypes /\ declined) => ~handled

\* C21 (corrected): HandleEvent returns true for every key it knows, whether
\* the operation behind it was carried out or declined; it returns false
\* only when the game is over or for '>' outside dev mode.
C21HandledIffRecognised ==
  (last \notin {"", "tick"}) =>
    (handled <=> (~game_over_ /\ (last = ">" => dev_mode_)))

\* A sale with no unit under the cursor was declined and reported handled.
C21Witness ==
  /\ last = "x" /\ declined /\ handled /\ ~game_over_
  /\ towers_ = <<>> /\ held_tower_ = None

\* C22: the units eligible as a target of towers_[1]: hp > 0 and, unless
\* the unit is a Thunder, within its range of its centre.
C22Eligible ==
  {i \in 1..Len(enemies_) :
     /\ enemies_[i].hp > 0
     /\ (towers_[1].type # "Thunder" =>
           InRange(TowerCenter(towers_[1]), EnemyCell(map_index_, enemies_[i]),
                   towers_[1].range))}

\* C22: target selection returns no target exactly when no unit is
\* eligible, and otherwise the eligible unit with the greatest
\* path_progress, the first in iteration order on a tie; a unit with
\* hp <= 0 is never returned.
C22Foremost ==
  last = "target" =>
    /\ obs.target = 0 <=> C22Eligible = {}
    /\ obs.target # 0 =>
         /\ obs.target \in C22Eligible
         /\ \A j \in C22Eligible :
              \/ enemies_[obs.target].path_progress > enemies_[j].path_progress
              \/ /\ enemies_[obs.target].path_progress = enemies_[j].path_progress
                 /\ obs.target <= j

\* The first unit is alive but out of range; of the two tied live units in
\* range the one met first was returned.
C22Witness ==
  /\ last = "target" /\ obs.target = 2 /\ Len(enemies_) = 3
  /\ towers_[1].type = "Default"
  /\ 1 \notin C22Eligible /\ enemies_[1].hp > 0
  /\ enemies_[3].hp > 0 /\ enemies_[3].path_progress = enemies_[2].path_progress

\* C23: what a Tick leaves of the ready units that found no target
\* (obs'.idle): none of them fired; when no unit fired at all, no projectile
\* was created and, with none in flight and no Kitty on the board, no
\* hostile unit lost hp or was removed other than by escaping.
C23IdleHarmless ==
  /\ obs'.idle \cap obs'.fired = {}
  /\ obs'.fired = {} =>
       /\ Len(projectiles_') <= Len(projectiles_)
       /\ (projectiles_ = <<>> /\ \A i \in 1..Len(towers_) : towers_[i].type # "Kitty") =>
            /\ obs'.removed = obs'.escaped
            /\ \A j \in 1..Len(enemies_') : \A k \in 1..Len(enemies_) :
                 enemies_'[j].id = enemies_[k].id => enemies_'[j].hp = enemies_[k].hp

C24NoTargetNoMove ==
  [][(last' = "tick" /\ ~game_over_ /\ Len(towers_') = Len(towers_)) =>
       /\ \A i \in obs'.idle :
            towers_[i].type = "Kitty" =>
              /\ i \notin obs'.fired
              /\ towers_'[i].pos = towers_[i].pos
              /\ towers_'[i].cooldown = towers_[i].cooldown - kTickMs * TimeScale(fast_forward_)
       /\ \A i \in obs'.fired :
            towers_[i].type = "Kitty" => \E s \in obs'.swipes : s.idx = i
       /\ \A s \in obs'.swipes :
            /\ s.idx \in obs'.fired
            /\ towers_'[s.idx].pos = s.pos
            /\ \E k \in 1..Len(s.seen) :
                 /\ s.seen[k].hp > 0
                 /\ InRange(TowerCenterAt(s.pos, towers_[s.idx].size), s.seen[k].cell,
                            towers_[s.idx].range)]_vars

\* An upgraded Kitty had a landing planned away from its cell, found no
\* target from it and stands on its old cell again.
C24Witness ==
  /\ last = "tick" /\ ~game_over_
  /\ \E i \in obs.jumpers \cap obs.idle :
       /\ i \in DOMAIN obs.planned
       /\ obs.planned[i] # obs.pre_pos[i]
       /\ towers_[i].pos = obs.pre_pos[i]

\* C25: a step started a wave.
C25Started == wave_active_' /\ wave_' = wave_ + 1

\* C25: the size of wave w on map mi, with WavesPerMap waves to a map.
C25Size(w, mi) == 6 + 2 * (((w - 1) % WavesPerMap) + 1 + 2 * mi)

\* C25: a started wave has spawn_remaining_ = 6 + 2 * difficulty and is due
\* at once; a step creates at most one hostile unit; the first tick of a
\* wave creates one.
C25StartAndPace ==
  /\ C25Started => /\ spawn_remaining_' = C25Size(wave_', map_index_')
                   /\ spawn_cooldown_ms_' = 0
  /\ next_id' - next_id \in {0, 1}
  /\ (last' = "tick" /\ ~game_over_ /\ wave_active_ /\ spawn_cooldown_ms_ = 0
        /\ spawn_remaining_ > 0) => next_id' = next_id + 1

\* C25 (as stated): ... and over the wave exactly that many units are
\* created before spawn_remaining_ reaches 0: apart from the start of a
\* wave, spawn_remaining_ goes down only by the units created.
C25ExactCount ==
  [][/\ C25StartAndPace
     /\ ~C25Started => spawn_remaining_' = spawn_remaining_ - (next_id' - next_id)]_vars

\* C25 (corrected): ... unless the dev-mode map skip ends the wave, which
\* sets spawn_remaining_ to 0 with the remaining units never created.
C25ExactCountUnlessSkipped ==
  [][/\ C25StartAndPace
     /\ ~C25Started =>
          IF last' = ">" /\ dev_mode_ /\ ~game_over_
            THEN spawn_remaining_' = 0 /\ next_id' = next_id
            ELSE spawn_remaining_' = spawn_remaining_ - (next_id' - next_id)]_vars

\* The second wave of map 0 has created its last unit: 8 + 10 units so far.
C25Witness ==
  /\ last = "tick" /\ wave_active_ /\ wave_ = 2 /\ map_index_ = 0
  /\ spawn_remaining_ = 0
  /\ next_id - 1 = C25Size(1, 0) + C25Size(2, 0)

\* C26: a tick completes the running wave: a wave was active before it and
\* after it that wave is over (none active, or the next one started).
C26Completes == wave_active_ /\ (~wave_active_' \/ wave_' # wave_)

\* C26: what a tick's CheckWaveCompletion added to kibbles_.
C26Paid == kibbles_' - obs'.check_state.kibbles

\* C26: a tick that completes wave w adds the bonus 20 + 3 * w to kibbles_
\* once; a tick that completes no wave, and so every tick while no wave is
\* active, adds none.
C26BonusOnce ==
  [][(last' = "tick" /\ ~game_over_) =>
       /\ C26Completes => C26Paid = 20 + 3 * wave_
       /\ ~C26Completes => C26Paid = 0
       /\ ~wave_active_ => C26Paid = 0]_vars

\* Wave 2 has just completed and paid 26 on top of what the tick had earned.
C26Witness ==
  /\ last = "tick" /\ obs.completed /\ obs.check_state.wave = 2
  /\ kibbles_ = obs.check_state.kibbles + 26

\* C27: the units of type ty on the board or in hand, and the upgraded ones.
C27All(tw, h, ty) ==
  Cardinality({i \in DOMAIN tw : tw[i].type = ty})
    + (IF h # None /\ h.tower.type = ty THEN 1 ELSE 0)

C27Up(tw, h, ty) ==
  Cardinality({i \in DOMAIN tw : tw[i].type = ty /\ tw[i].upgraded})
    + (IF h # None /\ h.tower.type = ty /\ h.tower.upgraded THEN 1 ELSE 0)

\* C27: a unit becomes upgraded only by 'u' on a placed, not yet upgraded
\* unit under the cursor with nothing held and kibbles_ >= 5 * base cost,
\* which deducts exactly that; any other 'u' changes nothing; and no step
\* takes the upgrade from a unit that still exists, a picked-up unit
\* carrying its flag into the hand and a cancelled or re-placed one carrying
\* it back to the board.
C27OneWay ==
  [][/\ \A ty \in TowerTypes :
          C27All(towers_', held_tower_', ty) >= C27All(towers_, held_tower_, ty)
            => C27Up(towers_', held_tower_', ty) >= C27Up(towers_, held_tower_, ty)
     /\ IF \E ty \in TowerTypes :
             C27Up(towers_', held_tower_', ty) > C27Up(towers_, held_tower_, ty)
          THEN LET idx == TowerIndexAt(towers_, cursor_)
               IN  /\ last' = "u" /\ held_tower_ = None /\ idx # 0
                   /\ ~towers_[idx].upgraded
                   /\ kibbles_ >= 5 * GetDef(towers_[idx].type).cost
                   /\ kibbles_' = kibbles_ - 5 * GetDef(towers_[idx].type).cost
                   /\ Len(towers_') = Len(towers_)
                   /\ towers_'[idx].upgraded
                   /\ \A j \in DOMAIN towers_ : j # idx => towers_'[j] = towers_[j]
          ELSE last' = "u" => (kibbles_' = kibbles_ /\ towers_' = towers_)
     /\ (held_tower_ = None /\ held_tower_' # None) =>
          held_tower_'.tower.upgraded = towers_[TowerIndexAt(towers_, cursor_)].upgraded
     /\ (held_tower_ # None /\ held_tower_' = None /\ Len(towers_') = Len(towers_) + 1) =>
          towers_'[Len(towers_')].upgraded = held_tower_.tower.upgraded]_vars

\* An upgraded unit has been picked up and put down again under the cursor,
\* and is still upgraded.
C27Witness ==
  /\ last = "c" /\ ~declined /\ held_tower_ = None /\ towers_ # <<>>
  /\ towers_[Len(towers_)].upgraded
  /\ towers_[Len(towers_)].pos = cursor_

\* C28: the type keys.
C28Key(type) == last' = type

\* C28: a type becomes unlocked only by its key, with kibbles_ at least
\* 10 * base cost, which deducts exactly that; a type key that unlocks
\* nothing leaves kibbles_ alone; no step, a map advance included, locks a
\* type again; the selected type is unlocked after every step; and a unit
\* bought in a step is of a type that was unlocked before it.
C28Unlocking ==
  [][/\ unlocked_ \subseteq unlocked_'
     /\ \A type \in unlocked_' \ unlocked_ :
          /\ unlocked_' = unlocked_ \cup {type}
          /\ type # "Default" /\ C28Key(type)
          /\ kibbles_ >= 10 * GetDef(type).cost
          /\ kibbles_' = kibbles_ - 10 * GetDef(type).cost
     /\ (last' \in TowerTypes /\ unlocked_' = unlocked_) => kibbles_' = kibbles_
     /\ selected_type_' = "Default" \/ selected_type_' \in unlocked_'
     /\ (Len(towers_') = Len(towers_) + 1 /\ held_tower_ = None) =>
          LET type == towers_'[Len(towers_')].type
          IN  type = "Default" \/ type \in unlocked_]_vars

\* Fat has just been unlocked with the last kibble it takes, and selected.
C28Witness ==
  /\ last = "Fat" /\ ~declined /\ unlocked_ = {"Fat"} /\ selected_type_ = "Fat"
  /\ kibbles_ = 0

\* C29: CanPlace for the cursor cell with the held unit's size, type, range
\* and upgrade flag.
C29CanPlaceHeld ==
  CanPlace(towers_, map_index_, cursor_, held_tower_.tower.size, held_tower_.tower.type,
           held_tower_.tower.range, held_tower_.tower.upgraded)

\* C29: the step put the held unit down on the cursor cell.
C29Replaced ==
  /\ held_tower_' = None
  /\ Len(towers_') = Len(towers_) + 1
  /\ SubSeq(towers_', 1, Len(towers_)) = towers_
  /\ [towers_'[Len(towers_')] EXCEPT !.cooldown = 0]
       = [held_tower_.tower EXCEPT !.pos = cursor_, !.cooldown = 0]

\* C29: the step left the board, the hand and kibbles_ as they were.
C29NoOp == towers_' = towers_ /\ held_tower_' = held_tower_ /\ kibbles_' = kibbles_

\* C29: the keys in `placing' put the held unit down when C29CanPlaceHeld
\* and do nothing otherwise, Escape puts it back, and the keys in `idle' do
\* nothing; kibbles_ does not change in any of these steps.
C29Held(placing, idle) ==
  (held_tower_ # None /\ ~game_over_) =>
    /\ overlay_enabled_
    /\ kibbles_' = kibbles_ \/ last' \notin (placing \cup idle \cup {"Escape"})
    /\ last' \in placing => IF C29CanPlaceHeld THEN C29Replaced ELSE C29NoOp
    /\ last' = "Escape" =>
         /\ held_tower_' = None
         /\ towers_' = Append(towers_, [held_tower_.tower EXCEPT !.pos = held_tower_.original])
    /\ last' \in idle => C29NoOp

\* C29 (as stated): while a unit is held, place ('c') re-places it where
\* CanPlace allows and never buys, cancel and re-placement leave kibbles_
\* alone, and sell ('x'), upgrade ('u') and pick-up ('m') do nothing.
C29HeldFrame == [][C29Held({"c"}, {"x", "u", "m"})]_vars

\* C29 (corrected): ... sell and upgrade do nothing, and the pick-up key
\* re-places the held unit just as the place key does.
C29HeldFramePickUpPlaces == [][C29Held({"c", "m"}, {"x", "u"})]_vars

\* The place key has put a held unit down: the overlay is off, which a
\* purchase never leaves it.
C29Witness ==
  /\ last = "c" /\ ~declined /\ held_tower_ = None /\ towers_ # <<>>
  /\ ~overlay_enabled_
  /\ towers_[Len(towers_)].pos = cursor_

\* C30: the duration a Catatonic unit t puts units to sleep for.
C30New(t) == IF t.upgraded THEN kCatSleepUpgrade ELSE kCatSleepBase

\* C30: hostile unit e is within reach of Catatonic unit t.
C30Affected(n, e) ==
  InRange(TowerCenter(n.tower), EnemyCell(n.map_index, e),
          n.tower.range + (IF n.tower.upgraded THEN kCatatonicUpgradeRange ELSE 0))

\* C30: every sleep_timer is within [0, kCatSleepCap]; and every call of
\* FireCatatonic in the last tick left every unit's hp, and everything else
\* but its sleep_timer, as it was, set the sleep_timer of each unit within
\* reach to min(cap, max(existing, new)), which is never less than it was,
\* and left the sleep_timer of the others alone.
C30Sleep ==
  /\ \A k \in DOMAIN enemies_ :
       enemies_[k].sleep_timer >= 0 /\ enemies_[k].sleep_timer <= kCatSleepCap
  /\ \A n \in obs.naps :
       /\ n.tower.type = "Catatonic"
       /\ DOMAIN n.after = DOMAIN n.before
       /\ \A k \in DOMAIN n.before :
            /\ n.after[k].hp = n.before[k].hp
            /\ [n.after[k] EXCEPT !.sleep_timer = 0] = [n.before[k] EXCEPT !.sleep_timer = 0]
            /\ n.after[k].sleep_timer >= n.before[k].sleep_timer
            /\ n.after[k].sleep_timer <= kCatSleepCap
            /\ n.after[k].sleep_timer =
                 IF C30Affected(n, n.before[k])
                   THEN IF n.before[k].sleep_timer > C30New(n.tower)
                          THEN n.before[k].sleep_timer ELSE C30New(n.tower)
                   ELSE n.before[k].sleep_timer

\* A Catatonic unit that is not upgraded fired at a unit that was asleep for
\* longer than its own duration, and the longer sleep was kept.
C30Witness ==
  \E n \in obs.naps : \E k \in DOMAIN n.before :
    /\ ~n.tower.upgraded
    /\ C30Affected(n, n.before[k])
    /\ n.before[k].sleep_timer > kCatSleepBase
    /\ n.after[k].sleep_timer = n.before[k].sleep_timer

\* C31: the units a Default unit can shoot at in volley v: hp > 0 and in
\* range.
C31Eligible(v) ==
  {k \in DOMAIN v.enemies :
     /\ v.enemies[k].hp > 0
     /\ InRange(TowerCenter(v.tower), EnemyCell(v.map_index, v.enemies[k]), v.tower.range)}

\* C31: how many of the units in E are ahead of unit k, and how many are
\* not behind it.
C31Ahead(v, E, k) ==
  Cardinality({j \in E : v.enemies[j].path_progress > v.enemies[k].path_progress})

C31NotBehind(v, E, k) ==
  Cardinality({j \in E : v.enemies[j].path_progress >= v.enemies[k].path_progress})

\* C31: unit k can stand at place r (counted from 0) of E sorted by
\* path_progress descending.
C31AtRank(v, E, k, r) == C31Ahead(v, E, k) <= r /\ r < C31NotBehind(v, E, k)

\* C31: every shot of a Default unit in the last tick added one projectile
\* per aim, from the unit's centre to the aimed unit's cell; an upgraded
\* unit aimed at min(3, n) different units of the n eligible ones, the
\* front, the middle (place n div 2) and the back of them by path_progress;
\* a unit that is not upgraded aimed at the selected target alone.
C31Volley ==
  \A v \in obs.volleys :
    LET E == C31Eligible(v)
        n == Cardinality(E)
    IN  /\ v.tower.type = "Default"
        /\ Len(v.shots) = Len(v.aims)
        /\ \A j \in DOMAIN v.aims :
             v.shots[j] = [x |-> TowerCenter(v.tower).x * 500,
                           y |-> TowerCenter(v.tower).y * 500,
                           target |-> EnemyCell(v.map_index, v.enemies[v.aims[j]]),
                           damage |-> v.tower.damage]
        /\ IF v.tower.upgraded
             THEN /\ Len(v.aims) = Min(3, n)
                  /\ \A i, j \in DOMAIN v.aims : i # j => v.aims[i] # v.aims[j]
                  /\ \A j \in DOMAIN v.aims : v.aims[j] \in E
                  /\ C31AtRank(v, E, v.aims[1], 0)
                  /\ n >= 2 => C31AtRank(v, E, v.aims[Len(v.aims)], n - 1)
                  /\ n >= 2 => C31AtRank(v, E, v.aims[2], n \div 2)
             ELSE /\ v.aims = <<v.target>>
                  /\ v.target = FindTarget([enemies |-> v.enemies, map_index |-> v.map_index],
                                           v.tower)

\* An upgraded Default unit with four units in range shot at three of them.
C31Witness ==
  \E v \in obs.volleys :
    /\ v.tower.upgraded
    /\ Cardinality(C31Eligible(v)) = 4
    /\ Len(v.aims) = 3

\* C32: the squared distance (in 1/1000 of a cell, squared) from the cell
\* of unit e to the point where projectile p of impact r is.
C32D2(r, e) == ImpactD2(EnemyCell(r.map_index, e), r.p)

\* C32: the squared distance projectile p has still to go to the middle of
\* its target cell; it has arrived when that is at most 0.05.
C32ToGo(p) ==
  (p.target.x * 1000 - p.x) * (p.target.x * 1000 - p.x)
    + (p.target.y * 1000 - p.y) * (p.target.y * 1000 - p.y)

\* C32: the units that impact r changed.
C32Changed(r) == {k \in DOMAIN r.before : r.after[k] # r.before[k]}

\* C32: the projectiles in flight after a tick are those its
\* ResolveProjectiles kept, and it kept exactly those that had not arrived
\* at their target cell; a kept projectile changed no unit; one that had
\* arrived is gone and took its damage from the unit whose cell is nearest
\* to it, within one cell of it, and from that unit only, or from none when
\* no unit's cell is that near.
C32Impact ==
  (last = "tick" /\ ~declined) =>
    /\ projectiles_ = [j \in 1..Len(SelectSeq(obs.impacts, LAMBDA r : r.kept)) |->
                         SelectSeq(obs.impacts, LAMBDA r : r.kept)[j].p]
    /\ \A i \in DOMAIN obs.impacts :
         LET r == obs.impacts[i]
         IN  /\ DOMAIN r.after = DOMAIN r.before
             /\ r.kept <=> C32ToGo(r.p) > 50000
             /\ r.kept => r.after = r.before
             /\ Cardinality(C32Changed(r)) <= 1
             /\ \A k \in C32Changed(r) :
                  /\ C32D2(r, r.before[k]) < 1000000
                  /\ \A j \in DOMAIN r.before : C32D2(r, r.before[k]) <= C32D2(r, r.before[j])
                  /\ r.after[k].hp = r.before[k].hp - r.p.damage
                  /\ [r.after[k] EXCEPT !.hp = 0, !.paid = 0]
                       = [r.before[k] EXCEPT !.hp = 0, !.paid = 0]
             /\ (~r.kept /\ \E k \in DOMAIN r.before : C32D2(r, r.before[k]) < 1000000)
                  => C32Changed(r) # {}

\* A projectile arrived at a cell with two units in it and hit one of them.
C32Witness ==
  \E i \in DOMAIN obs.impacts :
    LET r == obs.impacts[i]
    IN  /\ ~r.kept /\ C32Changed(r) # {}
        /\ Cardinality({k \in DOMAIN r.before : C32D2(r, r.before[k]) < 1000000}) >= 2

C34Rect(t, target_cell, depth, width) ==
  LET c == TowerCenter(t)
      dx == 2 * target_cell.x - c.x
      dy == 2 * target_cell.y - c.y
      horizontal == Abs(dx) >= Abs(dy)
      along == IF horizontal THEN Sgn(dx) ELSE Sgn(dy)
  IN  {q \in Cells :
         \E step \in 1..depth, off \in (-(width \div 2))..((width \div 2) - 1) :
           IF horizontal
             THEN q.x = RoundHalf(c.x) + along * step /\ q.y = RoundHalf(c.y) + along * off
             ELSE q.y = RoundHalf(c.y) + along * step /\ q.x = RoundHalf(c.x) - along * off}

\* C34: every swipe of the last tick took the unit's damage off exactly the
\* hostile units whose cell lay in the rectangle of that depth and width.
C34Exact(depth, width) ==
  \A s \in obs.swipes :
    \A k \in DOMAIN s.seen :
      s.after[k].hp = s.seen[k].hp
                        - (IF s.seen[k].cell \in C34Rect(s.tower, s.seen[s.target].cell, depth, width)
                             THEN s.tower.damage ELSE 0)

C35Idle ==
  /\ ~wave_active_ => (enemies_ = <<>> /\ spawn_remaining_ = 0)
  /\ spawn_remaining_ >= 0

\* C35: a step that creates a hostile unit (one whose id no unit had before)
\* starts in a state with a wave active.
C35Created ==
  (\E k \in DOMAIN enemies_' : \A j \in DOMAIN enemies_ : enemies_[j].id # enemies_'[k].id)
    => wave_active_

\* C35: in every state between ticks and actions, wave_active_ false implies
\* no hostile units and spawn_remaining_ = 0; spawn_remaining_ is never
\* negative; hostile units are created only while a wave is active.
C35BetweenWaves == []C35Idle /\ [][C35Created]_vars

\* A wave that had spawned units was cut short by the dev key '>' and left
\* no wave active, no units and nothing to spawn.
C35Witness ==
  /\ last = ">" /\ handled /\ next_id > 1
  /\ ~wave_active_ /\ enemies_ = <<>> /\ spawn_remaining_ = 0

\* C36 (as stated): a hostile unit that escapes never awards its bounty,
\* even when area attacks fire later in the same tick.  At the start of
\* MoveEnemies every unit has hp > 0 (Cleanup removed the others in the tick
\* before), so an escaped unit has caused an award only after its escape;
\* obs.escaped_paid records that Cleanup removed such a unit in the last
\* tick.
C36NoEscapeBounty == ~obs.escaped_paid

\* C37 (as stated): in the tick in which lives reach 0 no new wave is
\* started: when the game is over, the wave counter equals the one the tick
\* that ended the game had when it reached its completion check (nothing
\* before that check writes wave_), also when auto_waves_ was set and the last
\* unit of the wave was the one that escaped.  A tick of a game that is over
\* changes nothing, so obs still describes the tick that ended the game.
C37NoNewWave ==
  (game_over_ /\ obs.lives_zero) => wave_ = obs.check_state.wave

\* C38: the number of units of one type and upgrade state, placed or held.
C38Count(towers, held, type, up) ==
  Cardinality({i \in DOMAIN towers : towers[i].type = type /\ towers[i].upgraded = up})
    + (IF held # None /\ held.tower.type = type /\ held.tower.upgraded = up THEN 1 ELSE 0)

\* C38: the step is a pick-up, a re-placement or a cancel: the key m, the
\* key Escape, or the key c pressed with a unit in hand.
C38HoldStep == last' \in {"m", "Escape"} \/ (last' = "c" /\ held_tower_ # None)

\* C38: pick-up, re-placement and cancel keep the number of placed plus held
\* units, of every type and upgrade state; a step that picks a unit up takes
\* it out of the placed units; a step that puts the held unit down empties
\* the hand.  (At most one unit is held: held_tower_ is one optional.)
C38Conserved ==
  [][C38HoldStep =>
       /\ \A type \in TowerTypes, up \in BOOLEAN :
            C38Count(towers_', held_tower_', type, up) = C38Count(towers_, held_tower_, type, up)
       /\ (held_tower_ = None /\ held_tower_' # None) =>
            \E i \in DOMAIN towers_ :
              /\ held_tower_'.tower = towers_[i]
              /\ towers_' = RemoveAt(towers_, i)
       /\ (held_tower_ # None /\ held_tower_' # held_tower_) =>
            /\ held_tower_' = None
            /\ SubSeq(towers_', 1, Len(towers_)) = towers_
            /\ Len(towers_') = Len(towers_) + 1]_vars

\* A held unit has just been put down by the key m next to a unit that
\* stayed placed.
C38Witness ==
  /\ last = "m" /\ ~declined /\ held_tower_ = None
  /\ Len(towers_) = 2

\* C39: currency is not negative and lives lie between 0 and the starting
\* lives.
C39Range == kibbles_ >= 0 /\ lives_ \in 0..kStartingLives

\* C39: a step that lowers currency is a purchase (c), an upgrade (u) or an
\* unlock (a type key), and takes the price of one: of the selected type, five
\* times the price of the unit under the cursor, or ten times the price of
\* the type unlocked; the amount taken is at most the currency there was.
C39Deduction ==
  kibbles_' < kibbles_ =>
    /\ kibbles_ - kibbles_' <= kibbles_
    /\ \/ last' = "c" /\ kibbles_ - kibbles_' = GetDef(selected_type_).cost
       \/ /\ last' = "u"
          /\ \E i \in DOMAIN towers_ : kibbles_ - kibbles_' = GetDef(towers_[i].type).cost * 5
       \/ last' \in TowerTypes /\ kibbles_ - kibbles_' = GetDef(last').cost * 10

\* C39: currency is never negative, every deduction is a purchase, an
\* upgrade or an unlock that currency covered, and lives stay within
\* [0, starting lives].
C39Solvent == []C39Range /\ [][C39Deduction]_vars

\* Outside dev mode the unlock of the Thunder has just been refused for lack
\* of currency, after lives were lost.
C39Witness ==
  /\ ~dev_mode_ /\ last = "Thunder" /\ declined /\ ~game_over_
  /\ "Thunder" \notin unlocked_ /\ kibbles_ < GetDef("Thunder").cost * 10
  /\ lives_ < kStartingLives

====
